---- MODULE Spec2Model ----
(***************************************************************************)
(* State-machine model of the exoplanet-api frontend's query/state layer:  *)
(*   - ExoplanetDashboard (offset contract, "Builder B"), types.ts         *)
(*   - usePlanetFilters / usePlanetList (paged contract, "Builder A")      *)
(*   - the HTTP fetch helper buildUrl / get                                *)
(* Text is modelled as a sequence of one-character strings, so that        *)
(* trimming, number parsing and number formatting are computed.            *)
(***************************************************************************)
EXTENDS Integers, Sequences, FiniteSets, TLC

VARIABLES
  \* ---- ExoplanetDashboard (types.ts) ----
  mounted,         \* "init" (constructed, effects not yet run) | "mounted" | "unmounted"
  baseUrl,         \* usePersistentBaseUrl state
  storage,         \* window.localStorage: <<>> without an item under storageKey, else <<value>>
  filters,         \* draft Filters
  appliedFilters,  \* applied Filters
  limit,
  offset,
  fetchState,      \* {planets, methodCounts, stats, loading, error}
  deps,            \* dependency array of the last run of the fetch effect
  cur,             \* number of fetchAll calls so far = id of the latest batch
  batches,         \* batch id -> the three fetch promises of that fetchAll call
  dropped,         \* history: a response has arrived for a fetch its abort had rejected
  \* ---- App (App.tsx) ----
  location,        \* pathname of the route on screen; "" when the app is not on screen
  \* ---- usePlanetFilters / usePlanetList (part_001) ----
  filtersA,        \* usePlanetFilters: the PlanetFilterState held by the filters state
  filtersRef,      \* which object that state is: "defaultState" or a "fresh" one
  page,            \* usePlanetList page state
  cache,           \* query cache: query key -> {status, data, fetching, failureCount}
  shown,           \* the query observer's result before its last change of key
  requests,        \* GET /planets requests issued, in order: {key, params, state}
  late,            \* history: a response has arrived for a key that was not current
  \* ---- buildUrl / get (part_000) ----
  callPath, callParams, callNet, callOut,
  \* ---- table rows (PlanetsTable in part_001, the dashboard's table in types.ts) ----
  planet,          \* the record of the row
  cells            \* the text of the row's cells for the numeric fields, once rendered

varsB == <<mounted, baseUrl, storage, filters, appliedFilters, limit, offset,
           fetchState, deps, cur, batches, dropped>>
varsA == <<location, filtersA, filtersRef, page, cache, shown, requests, late>>
varsU == <<callPath, callParams, callNet, callOut, planet, cells>>
vars == <<varsB, varsA, varsU>>

\* ------------------------------------------------------------------ bounds
MaxBatches == 2

\* ------------------------------------------------------------------ text
NULL == [null |-> TRUE]
UNDEFINED == [undefined |-> TRUE]

Digits == <<"0", "1", "2", "3", "4", "5", "6", "7", "8", "9">>

DigitValue(c) ==
  CHOOSE d \in 0..9 : Digits[d + 1] = c

IsDigit(c) ==
  \E d \in 0..9 : Digits[d + 1] = c

RECURSIVE NatToString(_)
\* String(n) for a non-negative integer n.
NatToString(n) ==
  IF n < 10 THEN <<Digits[n + 1]>>
  ELSE NatToString(n \div 10) \o <<Digits[(n % 10) + 1]>>

\* String(n) for an integer n.
NumberToString(n) ==
  IF n < 0 THEN <<"-">> \o NatToString(-n) ELSE NatToString(n)

RECURSIVE TrimStart(_)
TrimStart(s) ==
  IF s # <<>> /\ Head(s) = " " THEN TrimStart(Tail(s)) ELSE s

RECURSIVE TrimEnd(_)
TrimEnd(s) ==
  IF s # <<>> /\ s[Len(s)] = " " THEN TrimEnd(SubSeq(s, 1, Len(s) - 1)) ELSE s

\* String.prototype.trim
Trim(s) ==
  TrimEnd(TrimStart(s))

RECURSIVE DigitsToNat(_)
DigitsToNat(s) ==
  IF s = <<>> THEN 0
  ELSE 10 * DigitsToNat(SubSeq(s, 1, Len(s) - 1)) + DigitValue(s[Len(s)])

AllDigits(s) ==
  s # <<>> /\ \A i \in 1..Len(s) : IsDigit(s[i])

T_Infinity == <<"I", "n", "f", "i", "n", "i", "t", "y">>
T_NaN == <<"N", "a", "N">>

\* A number value: NaN, an infinity (v2 its sign), or the finite number v2 / 2.
\* The numbers of the model are the integers and the halves.
Num(i) == [nan |-> FALSE, inf |-> FALSE, v2 |-> 2 * i]

IsInteger(n) == ~n.nan /\ ~n.inf /\ n.v2 % 2 = 0

\* Number.isFinite
isFinite(n) == ~n.nan /\ ~n.inf

\* Number(text) for texts made of spaces, digits, a sign, a final ".5", the
\* word Infinity and letters that start no numeric literal: white space is
\* stripped, the empty string is 0, an optionally signed Infinity is infinite,
\* an optionally signed digit string with or without ".5" is its value,
\* anything else is NaN.
Number(s) ==
  LET t == Trim(s)
      neg == t # <<>> /\ Head(t) = "-"
      body == IF t # <<>> /\ Head(t) \in {"-", "+"} THEN Tail(t) ELSE t
      half == Len(body) >= 3 /\ SubSeq(body, Len(body) - 1, Len(body)) = <<".", "5">>
      int == IF half THEN SubSeq(body, 1, Len(body) - 2) ELSE body
      mag == 2 * DigitsToNat(int) + (IF half THEN 1 ELSE 0)
  IN  IF t = <<>> THEN Num(0)
      ELSE IF body = T_Infinity
           THEN [nan |-> FALSE, inf |-> TRUE, v2 |-> IF neg THEN -1 ELSE 1]
      ELSE IF AllDigits(int)
           THEN [nan |-> FALSE, inf |-> FALSE, v2 |-> IF neg THEN -mag ELSE mag]
      ELSE [nan |-> TRUE, inf |-> FALSE, v2 |-> 0]

\* String(n) of a number value.
StringOfNumber(n) ==
  IF n.nan THEN T_NaN
  ELSE IF n.inf THEN (IF n.v2 < 0 THEN <<"-">> ELSE <<>>) \o T_Infinity
  ELSE IF n.v2 % 2 = 0 THEN NumberToString(n.v2 \div 2)
  ELSE (IF n.v2 < 0 THEN <<"-">> ELSE <<>>)
         \o NatToString((IF n.v2 < 0 THEN -n.v2 ELSE n.v2) \div 2) \o <<".", "5">>

numericOrUndefined_noFiniteCheck(value) ==
  IF Trim(value) = <<>> THEN UNDEFINED ELSE Number(value)

numericOrUndefined(value) ==
  IF Trim(value) = <<>> THEN UNDEFINED
  ELSE LET parsed == Number(value)
       IN  IF isFinite(parsed) THEN parsed ELSE UNDEFINED

\* URLSearchParams.set(name, value) on an ordered list of <<name, value>> pairs:
\* the first pair of that name takes the value and the others of that name go;
\* with no pair of that name one is appended.  (ps ranges over the one value
\* of params, so that params is evaluated once.)
ParamsSet(params, name, value) ==
  CHOOSE r \in
    { IF \E i \in 1..Len(ps) : ps[i][1] = name
      THEN LET first == CHOOSE i \in 1..Len(ps) :
                          ps[i][1] = name /\ \A j \in 1..(i - 1) : ps[j][1] # name
           IN  [i \in 1..first |-> IF i = first THEN <<name, value>> ELSE ps[i]]
                 \o SelectSeq(SubSeq(ps, first + 1, Len(ps)), LAMBDA q : q[1] # name)
      ELSE Append(ps, <<name, value>>) : ps \in {params} } : TRUE

\* ===================================================== ExoplanetDashboard
Endpoints == {"planets", "methodCounts", "stats"}

T_id == <<"i", "d">>
T_asc == <<"a", "s", "c">>
T_desc == <<"d", "e", "s", "c">>
T_true == <<"t", "r", "u", "e">>

DEFAULT_FILTERS ==
  [name |-> <<>>, disc_method |-> <<>>, min_year |-> <<>>, max_year |-> <<>>,
   include_deleted |-> FALSE, sort_by |-> T_id, sort_order |-> T_desc]

DEFAULT_BASE_URL == <<"d">>

DEFAULT_LIMIT == 25

\* The [field, wire parameter] table of buildParams; the twelve further
\* min_*/max_* rows go through the same loop body as these two.
numericFilters ==
  << <<"min_year", "min_year">>, <<"max_year", "max_year">> >>

RECURSIVE numericFiltersForEach(_, _, _)
numericFiltersForEach(params, source, i) ==
  IF i > Len(numericFilters) THEN params
  ELSE LET value == numericOrUndefined(source[numericFilters[i][1]])
       IN  numericFiltersForEach(
             IF value # UNDEFINED
             THEN ParamsSet(params, numericFilters[i][2], StringOfNumber(value))
             ELSE params,
             source, i + 1)

buildParams(source, useOffset, lim) ==
  LET p1 == ParamsSet(<<>>, "limit", NumberToString(lim))
      p2 == ParamsSet(p1, "offset", NumberToString(useOffset))
      p3 == IF Trim(source.name) # <<>> THEN ParamsSet(p2, "name", Trim(source.name)) ELSE p2
      p4 == IF Trim(source.disc_method) # <<>>
            THEN ParamsSet(p3, "disc_method", Trim(source.disc_method)) ELSE p3
      p5 == IF source.include_deleted THEN ParamsSet(p4, "include_deleted", T_true) ELSE p4
      p6 == ParamsSet(p5, "sort_by", source.sort_by)
      p7 == ParamsSet(p6, "sort_order", source.sort_order)
  IN  numericFiltersForEach(p7, source, 1)

\* URLSearchParams.toString() is one-to-one on the ordered pair list (names and
\* values are percent-encoded), so the pair list stands for the string.
queryParams == buildParams(appliedFilters, offset, limit)

previewParams == buildParams(filters, 0, limit)

\* The dependency array of the fetch effect.
effectDeps(url, params) == <<url, params>>

\* React re-runs an effect when some dependency is not Object.is-equal to its
\* value at the last run; both dependencies here are strings.  recomputed tells
\* whether the queryParams memo produced a new URLSearchParams object.
depsChanged_identity(prevDeps, nextDeps, recomputed) ==
  prevDeps[1] # nextDeps[1] \/ recomputed

depsChanged(prevDeps, nextDeps, recomputed) ==
  prevDeps # nextDeps

\* ---- promises of one fetchAll call
\* Status of one fetch promise of a batch:
\*   "pending"  not settled, the response is on the wire
\*   "ok"       fulfilled with a parsed body
\*   "failed"   rejected by an HTTP status, a network failure or a body that does not parse
\*   "abort"    rejected with an AbortError by the abort, the response still on the wire
\*   "done"     of a batch whose fetchAll has returned after its abort: settled, nothing
\*              on the wire (its value can reach no code any more and is not kept)
Rejected == {"failed", "abort", "done"}

\* State of Promise.all over the three fetch promises.
PromiseAll(req) ==
  IF \E e \in Endpoints : req[e] \in Rejected THEN "rejected"
  ELSE IF \A e \in Endpoints : req[e] = "ok" THEN "fulfilled"
  ELSE "pending"

HttpErrorText(e) ==
  CASE e = "planets" -> "Gezegenler getirilemedi: "
    [] e = "methodCounts" -> "Yontem istatistikleri getirilemedi: "
    [] e = "stats" -> "Istatistikler getirilemedi: "

\* The value a fetch promise rejects with.
ErrorOf(e, kind, status) ==
  CASE kind = "http" -> [name |-> "Error", text |-> HttpErrorText(e), status |-> status]
    [] kind = "net" -> [name |-> "TypeError", text |-> "Failed to fetch", status |-> 0]
    [] kind = "parse" -> [name |-> "SyntaxError", text |-> "Unexpected token", status |-> 0]
    [] OTHER -> [name |-> "AbortError", text |-> "The user aborted a request.", status |-> 0]

InitialFetchState ==
  [planets |-> NULL, methodCounts |-> <<>>, stats |-> NULL, loading |-> FALSE, error |-> NULL]

fetchAllStart_keepLoading(prev) ==
  [prev EXCEPT !.error = NULL]

fetchAllStart_keepError(prev) ==
  [prev EXCEPT !.loading = TRUE]

\* setFetchState((prev) => ({ ...prev, loading: true, error: null }))
fetchAllStart(prev) ==
  [prev EXCEPT !.loading = TRUE, !.error = NULL]

fetchAllThen_stillLoading(b, batch, total) ==
  [planets |-> [req |-> b, limit |-> batch.limit, offset |-> batch.offset, total |-> total],
   methodCounts |-> << [req |-> b] >>,
   stats |-> [req |-> b],
   loading |-> TRUE,
   error |-> NULL]

\* The setFetchState after await Promise.all: the three responses of batch b.
fetchAllThen(b, batch, total) ==
  [planets |-> [req |-> b, limit |-> batch.limit, offset |-> batch.offset, total |-> total],
   methodCounts |-> << [req |-> b] >>,
   stats |-> [req |-> b],
   loading |-> FALSE,
   error |-> NULL]

fetchAllCatch_noAbortCheck(prev, err) ==
  [planets |-> NULL, methodCounts |-> <<>>, stats |-> NULL, loading |-> FALSE,
   error |-> [text |-> err.text, status |-> err.status]]

fetchAllCatch_keepPrev(prev, err) ==
  IF err.name = "AbortError" THEN prev
  ELSE [prev EXCEPT !.loading = FALSE, !.error = [text |-> err.text, status |-> err.status]]

\* The catch block of fetchAll.
fetchAllCatch(prev, err) ==
  IF err.name = "AbortError" THEN prev
  ELSE [planets |-> NULL, methodCounts |-> <<>>, stats |-> NULL, loading |-> FALSE,
        error |-> [text |-> err.text, status |-> err.status]]

\* fetchAll from its await on: runs when Promise.all settles, i.e. when the
\* batch goes from before (Promise.all pending) to after (settled).
fetchAllAwait(b, before, after, total, err, prev) ==
  IF PromiseAll(before.req) # "pending" THEN prev
  ELSE CASE PromiseAll(after.req) = "fulfilled" -> fetchAllThen(b, after, total)
         [] PromiseAll(after.req) = "rejected" -> fetchAllCatch(prev, err)
         [] OTHER -> prev

\* fetchAll up to its await: the three fetches of batch go out.
NewBatch(url, params, lim, off) ==
  [baseUrl |-> url, query |-> params, limit |-> lim, offset |-> off,
   aborted |-> FALSE, req |-> [e \in Endpoints |-> "pending"]]

cleanup_noAbort(batch) ==
  batch

\* controller.abort(): every fetch of the batch still pending rejects with an
\* AbortError; the response, when it arrives later, is dropped.
cleanup(batch) ==
  [batch EXCEPT !.aborted = TRUE,
                !.req = [e \in Endpoints |-> IF batch.req[e] = "pending" THEN "abort" ELSE batch.req[e]]]

\* An aborted batch whose Promise.all has settled: fetchAll has returned, so of
\* its promises only the responses still on the wire are kept.
Forget(batch) ==
  IF batch.aborted /\ PromiseAll(batch.req) # "pending"
  THEN [batch EXCEPT !.req = [e \in Endpoints |-> IF batch.req[e] = "abort" THEN "abort" ELSE "done"]]
  ELSE batch


\* ---- inputs of the dashboard's handlers
StoredInputs == {<<>>}
BaseUrlInputs == {DEFAULT_BASE_URL, <<"x">>}
NameInputs == {<<" ">>, <<"a">>}
LimitInputs == {<<"3", "0", "0">>}
PageInputs == {<<"2">>, <<"x">>}
Totals == {0, 30}
ErrorStatuses == {500}
FailureKinds == {"http", "net"}

Max(a, b) == IF a >= b THEN a ELSE b
Min(a, b) == IF a <= b THEN a ELSE b

usePersistentBaseUrl_noFallback(stored) ==
  IF stored # <<>> THEN Trim(stored[1]) ELSE DEFAULT_BASE_URL

\* useState initializer of usePersistentBaseUrl (in a browser: window is defined).
usePersistentBaseUrl(stored) ==
  IF stored # <<>> /\ Trim(stored[1]) # <<>> THEN Trim(stored[1]) ELSE DEFAULT_BASE_URL

totalPages_floor ==
  IF fetchState.planets = NULL THEN 0
  ELSE fetchState.planets.total \div limit

totalPages ==
  IF fetchState.planets = NULL THEN 0
  ELSE (fetchState.planets.total + limit - 1) \div limit

currentPage == (offset \div limit) + 1

canGoPrev == offset > 0

canGoNext ==
  IF fetchState.planets # NULL THEN offset + limit < fetchState.planets.total ELSE FALSE

InitB ==
  /\ mounted = "init"
  /\ storage \in StoredInputs
  /\ baseUrl = usePersistentBaseUrl(storage)
  /\ filters = DEFAULT_FILTERS
  /\ appliedFilters = DEFAULT_FILTERS
  /\ limit = DEFAULT_LIMIT
  /\ offset = 0
  /\ fetchState = InitialFetchState
  /\ deps = <<>>
  /\ cur = 0
  /\ batches = <<>>
  /\ dropped = FALSE

\* The fetch effect after a render with the given next state: when a dependency
\* changed, the cleanup of the last run aborts its batch and fetchAll starts the
\* next one; the aborted fetchAll resumes in its catch block after that.
useEffect(nextBaseUrl, nextApplied, nextLimit, nextOffset, recomputed) ==
  LET nextParams == buildParams(nextApplied, nextOffset, nextLimit)
      nextDeps == effectDeps(nextBaseUrl, nextParams)
  IN  IF depsChanged(deps, nextDeps, recomputed)
      THEN /\ cur' = cur + 1
           /\ deps' = nextDeps
           /\ batches' = [b \in 1..(cur + 1) |->
                            IF b = cur + 1
                            THEN NewBatch(nextBaseUrl, nextParams, nextLimit, nextOffset)
                            ELSE IF b = cur THEN Forget(cleanup(batches[b])) ELSE batches[b]]
           /\ fetchState' = fetchAllAwait(cur, batches[cur], cleanup(batches[cur]),
                                          0, ErrorOf("planets", "abort", 0),
                                          fetchAllStart(fetchState))
      ELSE UNCHANGED <<cur, deps, batches, fetchState>>

\* First commit of the component: the effect runs for the first time.
Mount ==
  /\ mounted = "init"
  /\ mounted' = "mounted"
  /\ cur' = 1
  /\ deps' = effectDeps(baseUrl, queryParams)
  /\ batches' = <<NewBatch(baseUrl, queryParams, limit, offset)>>
  /\ fetchState' = fetchAllStart(fetchState)
  /\ UNCHANGED <<baseUrl, storage, filters, appliedFilters, limit, offset, dropped, varsA, varsU>>

\* The component unmounts: the effect's cleanup aborts the latest batch.
Unmount ==
  /\ mounted = "mounted"
  /\ mounted' = "unmounted"
  /\ batches' = [batches EXCEPT ![cur] = Forget(cleanup(batches[cur]))]
  /\ fetchState' = fetchAllAwait(cur, batches[cur], cleanup(batches[cur]),
                                 0, ErrorOf("planets", "abort", 0), fetchState)
  /\ UNCHANGED <<baseUrl, storage, filters, appliedFilters, limit, offset, deps, cur, dropped, varsA, varsU>>

\* update(value) of usePersistentBaseUrl, from the base-URL input's onChange.
update(value) ==
  /\ mounted = "mounted"
  /\ baseUrl' = value
  /\ storage' = <<value>>
  /\ useEffect(value, appliedFilters, limit, offset, FALSE)
  /\ UNCHANGED <<mounted, filters, appliedFilters, limit, offset, dropped, varsA, varsU>>

handleFilterChange_applies(key, value) ==
  /\ mounted = "mounted"
  /\ filters' = [filters EXCEPT ![key] = value]
  /\ appliedFilters' = [filters EXCEPT ![key] = value]
  /\ useEffect(baseUrl, [filters EXCEPT ![key] = value], limit, offset, TRUE)
  /\ UNCHANGED <<mounted, baseUrl, storage, limit, offset, dropped, varsA, varsU>>

\* handleFilterChange(key, value), from the onChange of a filter input.
handleFilterChange(key, value) ==
  /\ mounted = "mounted"
  /\ filters' = [filters EXCEPT ![key] = value]
  /\ useEffect(baseUrl, appliedFilters, limit, offset, FALSE)
  /\ UNCHANGED <<mounted, baseUrl, storage, appliedFilters, limit, offset, dropped, varsA, varsU>>

handleSubmit_keepOffset ==
  /\ mounted = "mounted"
  /\ ~fetchState.loading
  /\ appliedFilters' = filters
  /\ useEffect(baseUrl, filters, limit, offset, TRUE)
  /\ UNCHANGED <<mounted, baseUrl, storage, filters, limit, offset, dropped, varsA, varsU>>

\* The submit button is disabled while loading.
handleSubmit ==
  /\ mounted = "mounted"
  /\ ~fetchState.loading
  /\ appliedFilters' = filters
  /\ offset' = 0
  /\ useEffect(baseUrl, filters, limit, 0, TRUE)
  /\ UNCHANGED <<mounted, baseUrl, storage, filters, limit, dropped, varsA, varsU>>

limitOf_noMax(text) ==
  LET n == Number(text)
      v2 == IF n.nan \/ (~n.inf /\ n.v2 = 0) THEN 2
            ELSE IF n.inf THEN (IF n.v2 > 0 THEN 400 ELSE -400)
            ELSE n.v2
  IN  Min(400, v2)

\* Math.min(200, Math.max(1, Number(text) || 1)), as twice its value.
limitOf(text) ==
  LET n == Number(text)
      v2 == IF n.nan \/ (~n.inf /\ n.v2 = 0) THEN 2
            ELSE IF n.inf THEN (IF n.v2 > 0 THEN 400 ELSE 2)
            ELSE n.v2
  IN  Min(400, Max(2, v2))

\* onChange of the page-size input (for the texts that give a whole number).
limitOnChange(text) ==
  LET next == limitOf(text) \div 2
  IN  /\ mounted = "mounted"
      /\ limitOf(text) % 2 = 0
      /\ limit' = next
      /\ offset' = 0
      /\ useEffect(baseUrl, appliedFilters, next, 0, next # limit \/ offset # 0)
      /\ UNCHANGED <<mounted, baseUrl, storage, filters, appliedFilters, dropped, varsA, varsU>>

\* onClick of the reset button.
resetOnClick ==
  /\ mounted = "mounted"
  /\ filters' = DEFAULT_FILTERS
  /\ appliedFilters' = DEFAULT_FILTERS
  /\ limit' = DEFAULT_LIMIT
  /\ offset' = 0
  /\ useEffect(baseUrl, DEFAULT_FILTERS, DEFAULT_LIMIT, 0, TRUE)
  /\ UNCHANGED <<mounted, baseUrl, storage, dropped, varsA, varsU>>

\* goToPage(page) for a finite number page (for the pages and limits that give
\* a whole offset).
goToPage(pg) ==
  LET safePage2 == Max(2, pg.v2)
      newOffset2 == (safePage2 - 2) * limit
      newOffset == newOffset2 \div 2
  IN  /\ mounted = "mounted"
      /\ newOffset2 % 2 = 0
      /\ offset' = newOffset
      /\ useEffect(baseUrl, appliedFilters, limit, newOffset, newOffset # offset)
      /\ UNCHANGED <<mounted, baseUrl, storage, filters, appliedFilters, limit, dropped, varsA, varsU>>

prevOnClick ==
  /\ mounted = "mounted"
  /\ canGoPrev
  /\ goToPage(Num(currentPage - 1))

nextOnClick ==
  /\ mounted = "mounted"
  /\ canGoNext
  /\ goToPage(Num(currentPage + 1))

\* onChange of the go-to-page input.
pageOnChange(text) ==
  /\ isFinite(Number(text))
  /\ goToPage(Number(text))

\* The response of fetch e of batch b arrives (or the fetch fails): the fetch
\* promise settles unless the abort already rejected it, and fetchAll resumes
\* when this settles its Promise.all.  total is the total of the listing body,
\* read when the three bodies are committed.
Respond(b, e, kind, status, total) ==
  /\ b \in 1..cur
  /\ batches[b].req[e] \in {"pending", "abort"}
  /\ LET before == batches[b]
         after == IF before.req[e] = "abort"
                  THEN [before EXCEPT !.req[e] = "done"]
                  ELSE [before EXCEPT !.req[e] = IF kind = "ok" THEN "ok" ELSE "failed"]
     IN  /\ batches' = [batches EXCEPT ![b] = Forget(after)]
         /\ fetchState' = IF before.req[e] = "abort" \/ mounted = "unmounted" THEN fetchState
                          ELSE fetchAllAwait(b, before, after, total, ErrorOf(e, kind, status), fetchState)
  /\ dropped' = (dropped \/ batches[b].req[e] = "abort")
  /\ UNCHANGED <<mounted, baseUrl, storage, filters, appliedFilters, limit, offset, deps, cur,
                 varsA, varsU>>

RespondOk ==
  \E b \in 1..cur, e \in Endpoints, t \in Totals : Respond(b, e, "ok", 200, t)

RespondFail ==
  \E b \in 1..cur, e \in Endpoints, k \in FailureKinds, s \in ErrorStatuses :
    Respond(b, e, k, IF k = "http" THEN s ELSE 0, 0)

EditName ==
  \E v \in NameInputs : handleFilterChange("name", v)

\* The dashboard with the base-URL input, the filter form and its two buttons in
\* use until MaxBatches batches have gone out, and the three endpoints
\* answering, failing or late in any order.
NextFetch ==
  \/ Mount
  \/ Unmount
  \/ cur < MaxBatches /\ \E v \in BaseUrlInputs : update(v)
  \/ cur < MaxBatches /\ EditName
  \/ cur < MaxBatches /\ handleSubmit
  \/ cur < MaxBatches /\ resetOnClick
  \/ RespondOk
  \/ RespondFail

\* The dashboard with every input that enters the query key in use until
\* MaxBatches batches have gone out, and the endpoints answering the latest
\* batch with success (the browser cancels the requests of an aborted batch).
NextKey ==
  \/ Mount
  \/ cur < MaxBatches /\ \E v \in BaseUrlInputs : update(v)
  \/ cur < MaxBatches /\ EditName
  \/ cur < MaxBatches /\ handleSubmit
  \/ cur < MaxBatches /\ resetOnClick
  \/ cur < MaxBatches /\ \E t \in LimitInputs : limitOnChange(t)
  \/ cur < MaxBatches /\ \E t \in PageInputs : pageOnChange(t)
  \/ \E e \in Endpoints, t \in Totals : Respond(cur, e, "ok", 200, t)

\* ---- the draft filters
\* Values the filter inputs give to handleFilterChange.
DraftInputs ==
  {<<"name", v>> : v \in NameInputs}
    \cup {<<"min_year", <<"7">> >>, <<"min_year", <<"x">> >>, <<"include_deleted", TRUE>>}

\* The dashboard with its filter inputs, its submit and its reset button in
\* use, and its endpoints answering the latest batch or failing it.
NextDraft ==
  \/ Mount
  \/ cur < MaxBatches /\ \E d \in DraftInputs : handleFilterChange(d[1], d[2])
  \/ cur < MaxBatches /\ handleSubmit
  \/ cur < MaxBatches /\ resetOnClick
  \/ \E e \in Endpoints : Respond(cur, e, "ok", 200, 30)
  \/ \E e \in Endpoints : Respond(cur, e, "net", 0, 0)

\* ---- persistence of the base URL
\* Texts of the base-URL input.
UrlTexts == {<<>>, <<" ">>, <<"x">>, <<" ", "x", " ">>, DEFAULT_BASE_URL}

\* The page is loaded again: the component is constructed anew, its state
\* initialized as at first, with localStorage as the last session left it (the
\* browser cancels the requests of the document it leaves).
Reload ==
  /\ mounted \in {"mounted", "unmounted"}
  /\ mounted' = "init"
  /\ baseUrl' = usePersistentBaseUrl(storage)
  /\ filters' = DEFAULT_FILTERS
  /\ appliedFilters' = DEFAULT_FILTERS
  /\ limit' = DEFAULT_LIMIT
  /\ offset' = 0
  /\ fetchState' = InitialFetchState
  /\ deps' = <<>>
  /\ cur' = 0
  /\ batches' = <<>>
  /\ UNCHANGED <<storage, dropped, varsA, varsU>>

\* The dashboard with its base-URL input in use, unmounted and loaded again,
\* and its endpoints answering the latest batch.
NextStore ==
  \/ Mount
  \/ Unmount
  \/ Reload
  \/ cur < MaxBatches /\ \E v \in UrlTexts : update(v)
  \/ \E e \in Endpoints, t \in Totals : Respond(cur, e, "ok", 200, t)

\* ---- paging
MaxPagings == 3

\* Texts of the page-size input and of the go-to-page input (type="number":
\* the empty text stands for anything that is not a number).
LimitTexts == {<<"2", "0">>, <<"0">>, <<"-", "5">>, <<>>, <<"3", "0", "0">>}

PageTexts == {<<"2">>, <<"3">>, <<"0">>, <<"-", "1">>, <<>>, <<"1", ".", "5">>}

PagingTotals == {95}

\* The dashboard with the page-size input, the go-to-page input and the two
\* page buttons in use until MaxPagings batches have gone out, and the
\* endpoints answering the latest batch or failing it.
NextPagingB ==
  \/ Mount
  \/ cur < MaxPagings /\ \E t \in LimitTexts : limitOnChange(t)
  \/ cur < MaxPagings /\ \E t \in PageTexts : pageOnChange(t)
  \/ cur < MaxPagings /\ prevOnClick
  \/ cur < MaxPagings /\ nextOnClick
  \/ \E e \in Endpoints, t \in PagingTotals : Respond(cur, e, "ok", 200, t)
  \/ \E s \in ErrorStatuses : Respond(cur, "planets", "http", s, 0)

\* Whole pages in the go-to-page input.
IntegerPageTexts == {<<"2">>, <<"3">>, <<"0">>, <<"-", "1">>, <<>>}

\* The dashboard with every handler that moves the offset in use until
\* MaxPagings batches have gone out (whole pages in the go-to-page input), and
\* the endpoints answering the latest batch.
NextOffsets ==
  \/ Mount
  \/ cur < MaxPagings /\ handleFilterChange("name", <<"a">>)
  \/ cur < MaxPagings /\ handleSubmit
  \/ cur < MaxPagings /\ resetOnClick
  \/ cur < MaxPagings /\ \E t \in LimitTexts : limitOnChange(t)
  \/ cur < MaxPagings /\ \E t \in IntegerPageTexts : pageOnChange(t)
  \/ cur < MaxPagings /\ prevOnClick
  \/ cur < MaxPagings /\ nextOnClick
  \/ \E e \in Endpoints, t \in PagingTotals : Respond(cur, e, "ok", 200, t)

IdleA ==
  /\ location = "" /\ filtersA = <<>> /\ filtersRef = "" /\ page = 1 /\ cache = <<>> /\ shown = <<>>
  /\ requests = <<>> /\ late = FALSE

IdleU ==
  /\ callPath = <<>> /\ callParams = <<>> /\ callNet = <<>> /\ callOut = <<>>
  /\ planet = <<>> /\ cells = <<>>

Init == InitB /\ IdleA /\ IdleU

Spec == Init /\ [][NextFetch]_vars

\* ---- the end of loading
\* A response of the latest batch arrives, or one of its fetches fails.
RespondLatest ==
  \/ \E e \in Endpoints, t \in Totals : Respond(cur, e, "ok", 200, t)
  \/ \E e \in Endpoints, k \in FailureKinds, s \in ErrorStatuses :
       Respond(cur, e, k, IF k = "http" THEN s ELSE 0, 0)

\* The dashboard of Spec on a network that settles every fetch of the latest
\* batch in the end: each fetch promise is fulfilled, or rejected by the
\* transport, and the event loop then runs the continuation of fetchAll.  The
\* inputs stop when MaxBatches batches have gone out.
SpecLive == Init /\ [][NextFetch]_vars /\ WF_vars(RespondLatest)

SpecStore == Init /\ [][NextStore]_vars

SpecDraft == Init /\ [][NextDraft]_vars

SpecOffsets == Init /\ [][NextOffsets]_vars

SpecKey == Init /\ [][NextKey]_vars



\* =========================================== usePlanetFilters, usePlanetList
MaxRequests == 4

T_discovery_year == <<"d", "i", "s", "c", "o", "v", "e", "r", "y", "_", "y", "e", "a", "r">>

defaultState ==
  [search |-> <<>>, method |-> <<>>, minYear |-> <<>>, maxYear |-> <<>>,
   orderBy |-> T_discovery_year, orderDir |-> T_desc]

PAGE_SIZE == 20

mapFiltersToParams(f, p) ==
  [limit |-> PAGE_SIZE, page |-> p, name |-> f.search, method |-> f.method,
   min_year |-> f.minYear, max_year |-> f.maxYear,
   order_by |-> f.orderBy, order_dir |-> f.orderDir]

\* queryKey: ['planets', { filters, page }], compared by structure.
queryKey_noPage(f, p) == <<"planets", f, 1>>

queryKey(f, p) == <<"planets", f, p>>

keepPreviousData == TRUE

queryClientRetry_three == 1 + 2

\* retry of the QueryClient's default options: the number of automatic retries
\* of a failed query function.
queryClientRetry == 0

SearchInputs == {<<>>, <<"a">>}
\* What the server says of the listing: its number of pages and of results.
ServerBodies == {[pages |-> 1, total |-> 5], [pages |-> 3, total |-> 47]}

\* A query of the cache; one that was never observed has no data yet.
QueryOf(c, k) ==
  IF k \in DOMAIN c THEN c[k]
  ELSE [status |-> "loading", data |-> NULL, fetching |-> FALSE, failureCount |-> 0]

\* The result the observer gives for query q when prev was its result before
\* the key changed: with keepPreviousData, a query without data that has not
\* failed shows the data of prev.
createResult(q, prev) ==
  IF keepPreviousData /\ q.data = NULL /\ prev.status = "success" /\ q.status # "error"
  THEN [status |-> "success", data |-> prev.data, isPreviousData |-> TRUE]
  ELSE [status |-> q.status, data |-> q.data, isPreviousData |-> FALSE]

\* The observer as usePlanetList's last render left it.
Observer ==
  [key |-> queryKey(filtersA, page), cache |-> cache, requests |-> requests, shown |-> shown]

\* useQuery({queryKey, queryFn, keepPreviousData}) committed with filters f and
\* page p: on a new key the observer moves to that key's query, remembers the
\* result it had, and the query function runs unless the query is fetching
\* already (no staleTime is set, so cached data is stale at once).
useQuery(o, f, p) ==
  LET k == queryKey(f, p)
      q == QueryOf(o.cache, k)
      q1 == IF q.fetching THEN q
            ELSE [q EXCEPT !.fetching = TRUE, !.failureCount = 0,
                           !.status = IF q.data = NULL THEN "loading" ELSE @]
  IN  IF k = o.key THEN o
      ELSE [key |-> k,
            cache |-> [x \in DOMAIN o.cache \cup {k} |-> IF x = k THEN q1 ELSE o.cache[x]],
            requests |-> IF q.fetching THEN o.requests
                         ELSE Append(o.requests,
                                     [key |-> k, params |-> mapFiltersToParams(f, p),
                                      state |-> "flying"]),
            shown |-> createResult(QueryOf(o.cache, o.key), o.shown)]

\* What the hook returns: {data, isLoading, error}.
query == createResult(QueryOf(cache, queryKey(filtersA, page)), shown)

isLoading == query.status = "loading"

\* PlanetsTable: page and pages of the response on display.
tablePage == IF query.data # NULL THEN query.data.page ELSE 1

tablePages == IF query.data # NULL THEN query.data.pages ELSE 1

tableTotal == IF query.data # NULL THEN query.data.total ELSE 0

\* disabled of the Previous and of the Next button of PlanetsTable.
previousDisabled == tablePage <= 1 \/ isLoading

nextDisabled_strict == tablePage > tablePages \/ isLoading

nextDisabled == tablePage >= tablePages \/ isLoading

InitA ==
  /\ location = "/planets"
  /\ filtersA = defaultState
  /\ filtersRef = "defaultState"
  /\ page = 1
  /\ cache = [k \in {} |-> NULL]
  /\ shown = [status |-> "loading", data |-> NULL, isPreviousData |-> FALSE]
  /\ requests = <<>>
  /\ late = FALSE

\* First commit of PlanetsPage: the observer subscribes and the query of the
\* initial key is fetched.
MountA ==
  /\ location = "/planets"
  /\ requests = <<>>
  /\ cache' = [k \in {queryKey(filtersA, page)} |->
                 [status |-> "loading", data |-> NULL, fetching |-> TRUE, failureCount |-> 0]]
  /\ requests' = << [key |-> queryKey(filtersA, page),
                     params |-> mapFiltersToParams(filtersA, page), state |-> "flying"] >>
  /\ UNCHANGED <<location, filtersA, filtersRef, page, shown, late, varsB, varsU>>

usePlanetListEffect_keepPage(p) == p

\* useEffect(() => { setPage(1); }, [filters])
usePlanetListEffect(p) == 1

\* A render of PlanetsPage with a new filters object nf, to the end of the
\* renders it causes: the render with nf and the page as it is commits, its
\* effects run (setPage(1), and the observer takes the key of that render), and
\* when the page changed the next render commits with nf and the new page.
RenderWithNewFilters(nf, ref) ==
  LET o1 == useQuery(Observer, nf, page)
      p1 == usePlanetListEffect(page)
      o2 == useQuery(o1, nf, p1)
  IN  /\ filtersA' = nf
      /\ filtersRef' = ref
      /\ page' = p1
      /\ cache' = o2.cache
      /\ requests' = o2.requests
      /\ shown' = o2.shown
      /\ UNCHANGED <<location, late, varsB, varsU>>

\* updateFilter(key, value), from an input of PlanetFilters (disabled while
\* loading).
updateFilter(key, value) ==
  /\ location = "/planets"
  /\ requests # <<>>
  /\ ~isLoading
  /\ value # filtersA[key]
  /\ RenderWithNewFilters([filtersA EXCEPT ![key] = value], "fresh")

\* The filters and the page resetFilters leaves behind: setFilters(defaultState)
\* with the state being that object already is dropped by React (no render, so
\* the effect on [filters] does not run); otherwise the render with the new
\* filters runs the effect.
afterResetFilters ==
  IF filtersRef = "defaultState" THEN [filters |-> filtersA, page |-> page]
  ELSE [filters |-> defaultState, page |-> usePlanetListEffect(page)]

\* resetFilters: setFilters(defaultState) changes nothing when the state is
\* that object already.
resetFilters ==
  /\ location = "/planets"
  /\ requests # <<>>
  /\ ~isLoading
  /\ filtersRef # "defaultState"
  /\ RenderWithNewFilters(defaultState, "defaultState")

\* setPage(n), from the buttons of PlanetsTable.
setPage(n) ==
  LET o1 == useQuery(Observer, filtersA, n)
  IN  /\ n # page
      /\ page' = n
      /\ cache' = o1.cache
      /\ requests' = o1.requests
      /\ shown' = o1.shown
      /\ UNCHANGED <<location, filtersA, filtersRef, late, varsB, varsU>>

previousOnClick ==
  /\ location = "/planets"
  /\ requests # <<>>
  /\ ~previousDisabled
  /\ setPage(tablePage - 1)

nextOnClickA ==
  /\ location = "/planets"
  /\ requests # <<>>
  /\ ~nextDisabled
  /\ setPage(tablePage + 1)

RespondA_resetPage(i, ok, body) ==
  LET r == requests[i]
      q == cache[r.key]
      retry == ~ok /\ q.failureCount < queryClientRetry
  IN  /\ location = "/planets"
      /\ r.state = "flying"
      /\ requests' = [requests EXCEPT ![i].state = IF ok THEN "ok" ELSE "failed"]
                       \o (IF retry THEN <<[r EXCEPT !.state = "flying"]>> ELSE <<>>)
      /\ late' = (late \/ r.key # queryKey(filtersA, page))
      /\ cache' = [cache EXCEPT ![r.key] =
                     IF ok
                     THEN [status |-> "success",
                           data |-> [results |-> i, page |-> r.params.page,
                                     pages |-> body.pages, total |-> body.total,
                                     params |-> r.params],
                           fetching |-> FALSE, failureCount |-> 0]
                     ELSE IF retry THEN [q EXCEPT !.failureCount = @ + 1]
                     ELSE [q EXCEPT !.fetching = FALSE, !.failureCount = @ + 1,
                                    !.status = "error"]]
      /\ page' = (IF ok THEN page ELSE 1)
      /\ UNCHANGED <<location, filtersA, filtersRef, shown, varsB, varsU>>

\* get() of request i settles: the query of the request's key takes the body,
\* or, on a failure, runs its query function again while it has retries left
\* and fails when it has none.
RespondA(i, ok, body) ==
  LET r == requests[i]
      q == cache[r.key]
      retry == ~ok /\ q.failureCount < queryClientRetry
  IN  /\ location = "/planets"
      /\ r.state = "flying"
      /\ requests' = [requests EXCEPT ![i].state = IF ok THEN "ok" ELSE "failed"]
                       \o (IF retry THEN <<[r EXCEPT !.state = "flying"]>> ELSE <<>>)
      /\ late' = (late \/ r.key # queryKey(filtersA, page))
      /\ cache' = [cache EXCEPT ![r.key] =
                     IF ok
                     THEN [status |-> "success",
                           data |-> [results |-> i, page |-> r.params.page,
                                     pages |-> body.pages, total |-> body.total,
                                     params |-> r.params],
                           fetching |-> FALSE, failureCount |-> 0]
                     ELSE IF retry THEN [q EXCEPT !.failureCount = @ + 1]
                     ELSE [q EXCEPT !.fetching = FALSE, !.failureCount = @ + 1,
                                    !.status = "error"]]
      /\ UNCHANGED <<location, filtersA, filtersRef, page, shown, varsB, varsU>>

IdleB ==
  /\ mounted = "" /\ baseUrl = <<>> /\ storage = <<>> /\ filters = <<>> /\ appliedFilters = <<>>
  /\ limit = 0 /\ offset = 0 /\ fetchState = <<>> /\ deps = <<>> /\ cur = 0 /\ batches = <<>>
  /\ dropped = FALSE

NextA ==
  \/ MountA
  \/ Len(requests) < MaxRequests /\ \E v \in SearchInputs : updateFilter("search", v)
  \/ Len(requests) < MaxRequests /\ resetFilters
  \/ Len(requests) < MaxRequests /\ previousOnClick
  \/ Len(requests) < MaxRequests /\ nextOnClickA
  \/ \E i \in 1..Len(requests), body \in ServerBodies : RespondA(i, TRUE, body)
  \/ \E i \in 1..Len(requests) : RespondA(i, FALSE, NULL)

InitPlanetsPage == IdleB /\ InitA /\ IdleU

SpecA == InitPlanetsPage /\ [][NextA]_vars

\* The two paginated views, either the dashboard or PlanetsPage on screen.
InitPaging == Init \/ InitPlanetsPage

NextPaging == NextPagingB \/ NextA

SpecPaging == InitPaging /\ [][NextPaging]_vars

\* ======================================= App, DashboardPage, VisualizationPage
\* queryKey of useDiscoveryStats, of useDiscoveryTimeline and of
\* useDiscoveryData.
useDiscoveryStats == <<"analytics", "stats">>

useDiscoveryTimeline == <<"analytics", "timeline">>

useDiscoveryData == <<"discovery", "dataset">>

\* What the query function of each hook gives to get.
queryFn(k) ==
  CASE k = useDiscoveryStats -> [path |-> <<"/planets/stats">>, params |-> UNDEFINED]
    [] k = useDiscoveryTimeline -> [path |-> <<"/planets/timeline">>, params |-> UNDEFINED]
    [] k = useDiscoveryData -> [path |-> <<"/vis/discovery">>, params |-> [chart |-> <<"hist">>]]

\* <Routes>: the hooks the page of a route calls, in the order it calls them.
Routes(pathname) ==
  CASE pathname = "/" -> <<useDiscoveryStats, useDiscoveryTimeline>>
    [] pathname = "/visualizations" -> <<useDiscoveryData>>
    [] OTHER -> <<>>

\* The routes the model navigates between (the catalogue route is PlanetsPage,
\* modelled above).
NavLinks == {"/", "/visualizations"}

\* The page of route pathname mounts: each of its queries is fetched unless it
\* is fetching already (a query without data, a failed one included, is loaded
\* on mount, and one with data is stale at once and refetched).
mountPage(c, r, pathname) ==
  LET hooks == Routes(pathname)
      keys == {hooks[i] : i \in 1..Len(hooks)}
      fetched == SelectSeq(hooks, LAMBDA k : ~QueryOf(c, k).fetching)
  IN  [cache |-> [x \in DOMAIN c \cup keys |->
                    IF x \in keys /\ ~QueryOf(c, x).fetching
                    THEN [QueryOf(c, x) EXCEPT !.fetching = TRUE, !.failureCount = 0,
                                               !.status = IF QueryOf(c, x).data = NULL THEN "loading" ELSE @]
                    ELSE c[x]],
       requests |-> r \o [i \in 1..Len(fetched) |->
                            [key |-> fetched[i], params |-> queryFn(fetched[i]).params,
                             state |-> "flying"]]]

\* What each hook returns to the page on screen.
stats == QueryOf(cache, useDiscoveryStats)

timeline == QueryOf(cache, useDiscoveryTimeline)

discovery == QueryOf(cache, useDiscoveryData)

\* DashboardPage: what it renders.
DashboardPage ==
  IF stats.status = "error" \/ timeline.status = "error"
  THEN [className |-> "error", MetricCard |-> FALSE, TimelineChart |-> FALSE]
  ELSE [className |-> "card-grid", MetricCard |-> TRUE, TimelineChart |-> TRUE]

\* VisualizationPage: what it renders.
VisualizationPage ==
  IF discovery.status = "error"
  THEN [className |-> "error", DiscoveryCharts |-> FALSE]
  ELSE [className |-> "card", DiscoveryCharts |-> TRUE]

\* The app opened on the dashboard or on the visualizations, nothing rendered
\* yet.
InitApp ==
  /\ IdleB /\ IdleU
  /\ location \in NavLinks
  /\ filtersA = <<>> /\ filtersRef = "" /\ page = 1 /\ cache = <<>> /\ shown = <<>>
  /\ requests = <<>> /\ late = FALSE

\* First commit of the page the app was opened on.
MountApp ==
  /\ location \in NavLinks
  /\ requests = <<>>
  /\ cache' = mountPage(cache, requests, location).cache
  /\ requests' = mountPage(cache, requests, location).requests
  /\ UNCHANGED <<location, filtersA, filtersRef, page, shown, late, varsB, varsU>>

\* A NavLink to another route is clicked: the page on screen unmounts (its
\* fetches go on) and the page of the route mounts.
navigate(to) ==
  /\ location \in NavLinks
  /\ requests # <<>>
  /\ to # location
  /\ location' = to
  /\ cache' = mountPage(cache, requests, to).cache
  /\ requests' = mountPage(cache, requests, to).requests
  /\ UNCHANGED <<filtersA, filtersRef, page, shown, late, varsB, varsU>>

\* get() of request i, of one of the three hooks, settles: as for the listing,
\* the query takes the body, or on a failure runs its query function again
\* while it has retries left and fails when it has none.
RespondHook(i, ok) ==
  LET r == requests[i]
      q == cache[r.key]
      retry == ~ok /\ q.failureCount < queryClientRetry
  IN  /\ location \in NavLinks
      /\ r.state = "flying"
      /\ requests' = [requests EXCEPT ![i].state = IF ok THEN "ok" ELSE "failed"]
                       \o (IF retry THEN <<[r EXCEPT !.state = "flying"]>> ELSE <<>>)
      /\ cache' = [cache EXCEPT ![r.key] =
                     IF ok
                     THEN [status |-> "success", data |-> [body |-> i],
                           fetching |-> FALSE, failureCount |-> 0]
                     ELSE IF retry THEN [q EXCEPT !.failureCount = @ + 1]
                     ELSE [q EXCEPT !.fetching = FALSE, !.failureCount = @ + 1,
                                    !.status = "error"]]
      /\ UNCHANGED <<location, filtersA, filtersRef, page, shown, late, varsB, varsU>>

NextApp ==
  \/ MountApp
  \/ Len(requests) < MaxRequests /\ \E to \in NavLinks : navigate(to)
  \/ \E i \in 1..Len(requests) : RespondHook(i, TRUE)
  \/ \E i \in 1..Len(requests) : RespondHook(i, FALSE)

SpecApp == InitApp /\ [][NextApp]_vars

\* Every view that fetches: the dashboard with its filter form in use and its
\* endpoints answering or failing in any order, PlanetsPage, and the two pages
\* of the fixed queries.
NextFailB ==
  \/ Mount
  \/ cur < MaxBatches /\ EditName
  \/ cur < MaxBatches /\ handleSubmit
  \/ RespondOk
  \/ RespondFail

InitFail == Init \/ InitPlanetsPage \/ InitApp

NextFail == NextFailB \/ NextA \/ NextApp

SpecFail == InitFail /\ [][NextFail]_vars

\* Both variants with every handler that changes filter or pagination state in
\* use, and every network event: the dashboard's filter form, page-size and
\* go-to-page inputs, its unmount, and its endpoints answering, failing or
\* late in any order; PlanetsPage with its filter input, its reset and its
\* page buttons.
NextStateB ==
  \/ Mount
  \/ Unmount
  \/ cur < MaxBatches /\ EditName
  \/ cur < MaxBatches /\ handleSubmit
  \/ cur < MaxBatches /\ resetOnClick
  \/ cur < MaxBatches /\ \E t \in LimitInputs : limitOnChange(t)
  \/ cur < MaxBatches /\ \E t \in PageInputs : pageOnChange(t)
  \/ \E b \in 1..cur, e \in Endpoints : Respond(b, e, "ok", 200, 30)
  \/ \E b \in 1..cur, e \in Endpoints : Respond(b, e, "net", 0, 0)

NextState == NextStateB \/ NextA

SpecState == InitPaging /\ [][NextState]_vars

\* =============================================================== buildUrl, get
MaxValueLen == 2

API_BASE_URL == <<"http://localhost:8000">>

\* The paths get is called with.
Paths == {<<"/planets">>, <<"/planets/stats">>}

ValueChars == {"a", " ", "&", "=", "+"}

\* Values of a params record: string | number | undefined.
StringValues == {[string |-> t] : t \in UNION {[1..n -> ValueChars] : n \in 0..MaxValueLen}}

NumberValues == {[number |-> n] : n \in {0, 20}}

\* The params argument: absent (<<>>), or <<entries>> with the entries of the
\* record in the order of Object.entries.
ParamsInputs ==
  {<<>>}
    \cup { << << << <<"l">>, l >>, << <<"n">>, n >> >> >> :
             l \in NumberValues \cup {UNDEFINED, [string |-> <<>>]},
             n \in StringValues \cup {UNDEFINED} }

Statuses == {200, 204, 299, 300, 404, 500}

\* Response bodies: one that parses as JSON and one that does not (such as the
\* empty body of a 204).
Bodies == {[json |-> TRUE, content |-> "body"], [json |-> FALSE, content |-> ""]}

\* String(value)
String(value) ==
  IF "number" \in DOMAIN value THEN NumberToString(value.number) ELSE value.string

keepParam_truthy(entry) ==
  /\ entry[2] # UNDEFINED
  /\ entry[2] # [string |-> <<>>]
  /\ entry[2] # [number |-> 0]

\* .filter(([, value]) => value !== undefined && value !== '')
keepParam(entry) ==
  /\ entry[2] # UNDEFINED
  /\ entry[2] # [string |-> <<>>]

\* The application/x-www-form-urlencoded form of one character.
percentEncode(c) ==
  CASE c = " " -> <<"+">>
    [] c = "&" -> <<"%", "2", "6">>
    [] c = "=" -> <<"%", "3", "D">>
    [] c = "+" -> <<"%", "2", "B">>
    [] c = "%" -> <<"%", "2", "5">>
    [] OTHER -> <<c>>

RECURSIVE encodeText(_)
encodeText(t) ==
  IF t = <<>> THEN <<>> ELSE percentEncode(Head(t)) \o encodeText(Tail(t))

RECURSIVE serializeParams(_)
\* URLSearchParams as it appears in url.toString(): name=value joined by &.
serializeParams(ps) ==
  IF ps = <<>> THEN <<>>
  ELSE encodeText(ps[1][1]) \o <<"=">> \o encodeText(ps[1][2])
         \o (IF Len(ps) > 1 THEN <<"&">> \o serializeParams(Tail(ps)) ELSE <<>>)

RECURSIVE searchParamsForEach(_, _)
\* .forEach(([key, value]) => url.searchParams.set(key, String(value)))
searchParamsForEach(entries, searchParams) ==
  IF entries = <<>> THEN searchParams
  ELSE searchParamsForEach(Tail(entries),
                           ParamsSet(searchParams, entries[1][1], String(entries[1][2])))

buildUrl(path, params) ==
  LET url == API_BASE_URL \o path
      searchParams == IF params = <<>> THEN <<>>
                      ELSE searchParamsForEach(SelectSeq(params[1], keepParam), <<>>)
  IN  IF searchParams = <<>> THEN url ELSE url \o <<"?">> \o serializeParams(searchParams)

responseOk_below400(status) == 200 <= status /\ status < 400

\* response.ok
responseOk(status) == 200 <= status /\ status <= 299

RequestFailed(status) ==
  [kind |-> "error", name |-> "Error",
   message |-> <<"Request failed with status ">> \o NumberToString(status), value |-> ""]

\* What the promise of get settles to for a response.
getResult(status, body) ==
  IF ~responseOk(status) THEN RequestFailed(status)
  ELSE IF body.json THEN [kind |-> "value", name |-> "", message |-> <<>>, value |-> body.content]
  ELSE [kind |-> "error", name |-> "SyntaxError", message |-> <<"Unexpected end of JSON input">>,
        value |-> ""]

InitU ==
  /\ callPath \in Paths
  /\ callParams \in ParamsInputs
  /\ callNet = [url |-> <<>>, state |-> "idle", status |-> 0, json |-> FALSE]
  /\ callOut = [kind |-> "none", name |-> "", message |-> <<>>, value |-> ""]
  /\ planet = <<>> /\ cells = <<>>

\* get(path, params) up to its await: fetch(buildUrl(path, params)).
get ==
  /\ callNet.state = "idle"
  /\ callNet' = [callNet EXCEPT !.url = buildUrl(callPath, callParams), !.state = "flying"]
  /\ callOut' = [callOut EXCEPT !.kind = "pending"]
  /\ UNCHANGED <<callPath, callParams, planet, cells, varsA, varsB>>

\* fetch resolves with a response and get runs to its end.
getResponse(status, body) ==
  /\ callNet.state = "flying"
  /\ status = 204 => ~body.json
  /\ callNet' = [callNet EXCEPT !.state = "response", !.status = status, !.json = body.json]
  /\ callOut' = getResult(status, body)
  /\ UNCHANGED <<callPath, callParams, planet, cells, varsA, varsB>>

\* fetch rejects (no HTTP response) and the rejection passes through get.
getNetworkFailure ==
  /\ callNet.state = "flying"
  /\ callNet' = [callNet EXCEPT !.state = "failed"]
  /\ callOut' = [kind |-> "error", name |-> "TypeError", message |-> <<"Failed to fetch">>,
                 value |-> ""]
  /\ UNCHANGED <<callPath, callParams, planet, cells, varsA, varsB>>

NextU ==
  \/ get
  \/ \E status \in Statuses, body \in Bodies : getResponse(status, body)
  \/ getNetworkFailure

InitGet == IdleB /\ IdleA /\ InitU

SpecUrl == InitGet /\ [][NextU]_vars

\* ============================================================ query builders
\* Texts of the free-text filter fields and of the year fields.
FilterTexts == {<<>>, <<" ">>, <<"a">>}

YearTexts ==
  {<<>>, <<" ">>, <<"7">>, <<" ", "7", " ">>, <<"-", "1">>, <<"1", ".", "5">>, <<"x">>, T_Infinity}

\* Object.entries of the record mapFiltersToParams returns.
paramsEntries(m) ==
  << << <<"limit">>, [number |-> m.limit] >>,
     << <<"page">>, [number |-> m.page] >>,
     << <<"name">>, [string |-> m.name] >>,
     << <<"method">>, [string |-> m.method] >>,
     << <<"min_year">>, [string |-> m.min_year] >>,
     << <<"max_year">>, [string |-> m.max_year] >>,
     << <<"order_by">>, [string |-> m.order_by] >>,
     << <<"order_dir">>, [string |-> m.order_dir] >> >>

\* The arguments of get in the query function of usePlanetList.
queryFnPath == <<"/planets">>

queryFnParams(f, p) == <<paramsEntries(mapFiltersToParams(f, p))>>

\* PlanetsPage with some filter state and page, its query function about to
\* call get; the dashboard as constructed.
InitBuilderA ==
  /\ InitB
  /\ filtersA \in {[defaultState EXCEPT !.search = s, !.minYear = y, !.maxYear = z] :
                     s \in FilterTexts, y \in YearTexts, z \in {<<>>, <<"x">>}}
  /\ location = "/planets"
  /\ filtersRef = "fresh"
  /\ page \in {1, 2}
  /\ cache = [k \in {} |-> NULL]
  /\ shown = [status |-> "loading", data |-> NULL, isPreviousData |-> FALSE]
  /\ requests = <<>>
  /\ late = FALSE
  /\ callPath = queryFnPath
  /\ callParams = queryFnParams(filtersA, page)
  /\ callNet = [url |-> <<>>, state |-> "idle", status |-> 0, json |-> FALSE]
  /\ callOut = [kind |-> "none", name |-> "", message |-> <<>>, value |-> ""]
  /\ planet = <<>> /\ cells = <<>>

\* The dashboard about to mount with some applied filters; PlanetsPage as
\* constructed.
InitBuilderB ==
  /\ mounted = "init"
  /\ storage \in StoredInputs
  /\ baseUrl = usePersistentBaseUrl(storage)
  /\ filters \in {[DEFAULT_FILTERS EXCEPT !.name = s, !.min_year = y, !.max_year = z,
                                         !.include_deleted = d] :
                    s \in FilterTexts, y \in YearTexts, z \in {<<>>, <<" ", "7", " ">>},
                    d \in BOOLEAN}
  /\ appliedFilters = filters
  /\ limit = DEFAULT_LIMIT
  /\ offset = 0
  /\ fetchState = InitialFetchState
  /\ deps = <<>>
  /\ cur = 0
  /\ batches = <<>>
  /\ dropped = FALSE
  /\ InitA
  /\ callPath = queryFnPath
  /\ callParams = queryFnParams(filtersA, page)
  /\ callNet = [url |-> <<>>, state |-> "idle", status |-> 0, json |-> FALSE]
  /\ callOut = [kind |-> "none", name |-> "", message |-> <<>>, value |-> ""]
  /\ planet = <<>> /\ cells = <<>>

InitBuild == InitBuilderA \/ InitBuilderB

NextBuild ==
  \/ Mount
  \/ get
  \/ \E status \in Statuses, body \in Bodies : getResponse(status, body)
  \/ getNetworkFailure

SpecBuild == InitBuild /\ [][NextBuild]_vars

\* ============================================== paging in IEEE 754 doubles
\* The page-size input is a number input without a step, so its text may carry
\* a fraction ("1.04"); limit and offset are then doubles that are no whole
\* numbers, and goToPage and currentPage multiply and divide them with
\* rounding.  A natural number of any size is the sequence of its digits in
\* base 2^20, least significant first, the last digit not 0; a double >= 0 is
\* its 53-bit significand m and its exponent e, standing for m * 2^e (zero has
\* the empty significand).
MantissaBits == 53

RECURSIVE Pow2(_)
Pow2(k) ==
  IF k = 0 THEN 1 ELSE 2 * Pow2(k - 1)

LimbBits == 4 * 5

LimbBase == Pow2(LimbBits)

Limb(a, i) ==
  IF i \in 1..Len(a) THEN a[i] ELSE 0

\* a without its leading zero digits.
Norm(a) ==
  LET used == {i \in 1..Len(a) : a[i] # 0}
  IN  IF used = {} THEN <<>>
      ELSE SubSeq(a, 1, CHOOSE i \in used : \A j \in used : j <= i)

RECURSIVE LimbsOf(_)
LimbsOf(n) ==
  IF n = 0 THEN <<>> ELSE <<n % LimbBase>> \o LimbsOf(n \div LimbBase)

RECURSIVE NatOfLimbs(_)
\* The number itself, when it is below 2^31.
NatOfLimbs(a) ==
  IF a = <<>> THEN 0 ELSE Head(a) + LimbBase * NatOfLimbs(Tail(a))

Less(a, b) ==
  IF Len(a) # Len(b) THEN Len(a) < Len(b)
  ELSE \E i \in 1..Len(a) : a[i] < b[i] /\ \A j \in (i + 1)..Len(a) : a[j] = b[j]

RECURSIVE PlusCarry(_, _, _, _)
PlusCarry(a, b, i, carry) ==
  IF i > Len(a) /\ i > Len(b) THEN (IF carry = 0 THEN <<>> ELSE <<carry>>)
  ELSE LET t == Limb(a, i) + Limb(b, i) + carry
       IN  <<t % LimbBase>> \o PlusCarry(a, b, i + 1, t \div LimbBase)

Plus(a, b) ==
  PlusCarry(a, b, 1, 0)

RECURSIVE MinusBorrow(_, _, _, _)
MinusBorrow(a, b, i, borrow) ==
  IF i > Len(a) THEN <<>>
  ELSE LET t == a[i] - Limb(b, i) - borrow
       IN  <<(t + LimbBase) % LimbBase>> \o MinusBorrow(a, b, i + 1, IF t < 0 THEN 1 ELSE 0)

\* a - b for a >= b.
Minus(a, b) ==
  Norm(MinusBorrow(a, b, 1, 0))

RECURSIVE TimesCarry(_, _, _, _)
TimesCarry(a, n, i, carry) ==
  IF i > Len(a) THEN (IF carry = 0 THEN <<>> ELSE <<carry>>)
  ELSE LET t == a[i] * n + carry
       IN  <<t % LimbBase>> \o TimesCarry(a, n, i + 1, t \div LimbBase)

\* a * n for a whole number n up to 2^10.
TimesNat(a, n) ==
  IF n = 0 THEN <<>> ELSE TimesCarry(a, n, 1, 0)

RECURSIVE SmallBitLength(_)
SmallBitLength(n) ==
  IF n = 0 THEN 0 ELSE 1 + SmallBitLength(n \div 2)

\* The number of binary digits of a.
BitLength(a) ==
  IF a = <<>> THEN 0 ELSE LimbBits * (Len(a) - 1) + SmallBitLength(a[Len(a)])

\* a * 2^k
ShiftLeft(a, k) ==
  LET s == k % LimbBits
  IN  IF a = <<>> THEN <<>>
      ELSE [i \in 1..(k \div LimbBits) |-> 0]
             \o TimesNat(TimesNat(a, Pow2(s \div 2)), Pow2(s - (s \div 2)))

\* a \div 2^k
ShiftRight(a, k) ==
  LET drop == k \div LimbBits
      s == k % LimbBits
  IN  Norm([i \in 1..(Len(a) - drop) |->
              (a[i + drop] \div Pow2(s)) + (Limb(a, i + drop + 1) % Pow2(s)) * Pow2(LimbBits - s)])

\* The binary digit of weight 2^k of a.
BitAt(a, k) ==
  (Limb(a, (k \div LimbBits) + 1) \div Pow2(k % LimbBits)) % 2

\* a % 2^k = 0
LowBitsZero(a, k) ==
  /\ \A i \in 1..(k \div LimbBits) : Limb(a, i) = 0
  /\ Limb(a, (k \div LimbBits) + 1) % Pow2(k % LimbBits) = 0

Zero == [m |-> <<>>, e |-> 0]

\* The double nearest to a * 2^e, ties to even; sticky tells that digits below
\* those of a were dropped and were not all zero.
RoundDouble(a, e, sticky) ==
  IF a = <<>> THEN Zero
  ELSE IF BitLength(a) <= MantissaBits
  THEN [m |-> ShiftLeft(a, MantissaBits - BitLength(a)), e |-> e - (MantissaBits - BitLength(a))]
  ELSE LET k == BitLength(a) - MantissaBits
           kept == ShiftRight(a, k)
           up == /\ BitAt(a, k - 1) = 1
                 /\ (sticky \/ BitAt(kept, 0) = 1 \/ ~LowBitsZero(a, k - 1))
           next == Plus(kept, <<1>>)
       IN  IF ~up THEN [m |-> kept, e |-> e + k]
           ELSE IF BitLength(next) > MantissaBits THEN [m |-> ShiftRight(next, 1), e |-> e + k + 1]
           ELSE [m |-> next, e |-> e + k]

\* The double of a whole number below 2^31.
DoubleOf(n) ==
  RoundDouble(LimbsOf(n), 0, FALSE)

\* x * n for a double x and a whole number n, 0 <= n <= 2^10: the exact product, rounded.
Times(x, n) ==
  RoundDouble(TimesNat(x.m, n), x.e, FALSE)

\* One step of the division of significands: the next binary digit of the quotient.
DivideStep(den, s) ==
  IF Less(s.rem, den)
  THEN [rem |-> TimesNat(s.rem, 2), quot |-> TimesNat(s.quot, 2)]
  ELSE [rem |-> TimesNat(Minus(s.rem, den), 2), quot |-> Plus(TimesNat(s.quot, 2), <<1>>)]

RECURSIVE DivideSteps(_, _, _)
\* count steps, by halves.
DivideSteps(den, count, s) ==
  IF count = 1 THEN CHOOSE r \in {DivideStep(den, t) : t \in {s}} : TRUE
  ELSE CHOOSE r \in { DivideSteps(den, count - (count \div 2), t) :
                      t \in {DivideSteps(den, count \div 2, s)} } : TRUE

\* x / y for doubles x >= 0 and y > 0: the quotient of the significands to
\* three digits more than a significand holds, rounded.
Divide(x, y) ==
  IF x.m = <<>> THEN Zero
  ELSE LET extra == MantissaBits + 3
           d == DivideSteps(y.m, extra + 1, [rem |-> x.m, quot |-> <<>>])
       IN  RoundDouble(d.quot, x.e - y.e - extra, d.rem # <<>>)

\* Math.floor of a double below 2^31.
Floor(x) ==
  IF x.e >= 0 THEN NatOfLimbs(ShiftLeft(x.m, x.e)) ELSE NatOfLimbs(ShiftRight(x.m, -x.e))

\* The double nearest to n / d, for whole numbers n >= 0 and d > 0 below 2^31.
DoubleOfRatio(n, d) ==
  Divide(DoubleOf(n), DoubleOf(d))

\* ---- the dashboard with limit and offset as doubles
LimitDecimals == {<<"3", ".", "3", "3">>, <<"1", ".", "0", "4">>, <<"2", "0">>, <<>>}
PageDecimals == {<<"2">>, <<"6">>, <<"6", "4">>, <<"0">>}

RECURSIVE Pow10(_)
Pow10(k) ==
  IF k = 0 THEN 1 ELSE 10 * Pow10(k - 1)

\* Math.min(200, Math.max(1, Number(text) || 1)) for a text of digits with at
\* most one "." among them (the texts a number input delivers, "" included).
limitDouble(text) ==
  LET dots == {i \in 1..Len(text) : text[i] = "."}
      dot == IF dots = {} THEN Len(text) + 1 ELSE CHOOSE i \in dots : TRUE
      n == DigitsToNat(SelectSeq(text, IsDigit))
      d == Pow10(Max(0, Len(text) - dot))
  IN  IF n < d THEN DoubleOf(1)
      ELSE IF n > 200 * d THEN DoubleOf(200)
      ELSE DoubleOfRatio(n, d)

\* queryParams for doubles: String(x) is one-to-one on doubles, so the double
\* itself stands for its text in the pair list.
doubleParams(source, off, lim) ==
  ParamsSet(ParamsSet(buildParams(source, 0, 0), "limit", <<lim>>), "offset", <<off>>)

\* The fetch effect, as useEffect above.
useEffectDouble(nextApplied, nextLimit, nextOffset) ==
  LET nextParams == doubleParams(nextApplied, nextOffset, nextLimit)
      nextDeps == effectDeps(baseUrl, nextParams)
  IN  IF depsChanged(deps, nextDeps, TRUE)
      THEN /\ cur' = cur + 1
           /\ deps' = nextDeps
           /\ batches' = [b \in 1..(cur + 1) |->
                            IF b = cur + 1
                            THEN NewBatch(baseUrl, nextParams, nextLimit, nextOffset)
                            ELSE IF b = cur THEN Forget(cleanup(batches[b])) ELSE batches[b]]
           /\ fetchState' = fetchAllAwait(cur, batches[cur], cleanup(batches[cur]),
                                          0, ErrorOf("planets", "abort", 0),
                                          fetchAllStart(fetchState))
      ELSE UNCHANGED <<cur, deps, batches, fetchState>>

InitDouble ==
  /\ mounted = "init"
  /\ storage = <<>>
  /\ baseUrl = usePersistentBaseUrl(storage)
  /\ filters = DEFAULT_FILTERS
  /\ appliedFilters = DEFAULT_FILTERS
  /\ limit = DoubleOf(DEFAULT_LIMIT)
  /\ offset = Zero
  /\ fetchState = InitialFetchState
  /\ deps = <<>>
  /\ cur = 0
  /\ batches = <<>>
  /\ dropped = FALSE
  /\ IdleA
  /\ IdleU

MountDouble ==
  /\ mounted = "init"
  /\ mounted' = "mounted"
  /\ cur' = 1
  /\ deps' = effectDeps(baseUrl, doubleParams(appliedFilters, offset, limit))
  /\ batches' = <<NewBatch(baseUrl, doubleParams(appliedFilters, offset, limit), limit, offset)>>
  /\ fetchState' = fetchAllStart(fetchState)
  /\ UNCHANGED <<baseUrl, storage, filters, appliedFilters, limit, offset, dropped, varsA, varsU>>

\* onChange of the page-size input.
limitOnChangeDouble(text) ==
  /\ mounted = "mounted"
  /\ \E next \in {limitDouble(text)} :
       /\ limit' = next
       /\ offset' = Zero
       /\ useEffectDouble(appliedFilters, next, Zero)
  /\ UNCHANGED <<mounted, baseUrl, storage, filters, appliedFilters, dropped, varsA, varsU>>

\* goToPage(page) for a whole number page up to 2^10.
goToPageDouble(pg) ==
  /\ mounted = "mounted"
  /\ \E newOffset \in {Times(limit, Max(1, pg) - 1)} :
       /\ offset' = newOffset
       /\ useEffectDouble(appliedFilters, limit, newOffset)
  /\ UNCHANGED <<mounted, baseUrl, storage, filters, appliedFilters, limit, dropped, varsA, varsU>>

\* onChange of the go-to-page input, for a text of digits.
pageOnChangeDouble(text) ==
  goToPageDouble(DigitsToNat(text))

handleSubmitDouble ==
  /\ mounted = "mounted"
  /\ ~fetchState.loading
  /\ appliedFilters' = filters
  /\ offset' = Zero
  /\ useEffectDouble(filters, limit, Zero)
  /\ UNCHANGED <<mounted, baseUrl, storage, filters, limit, dropped, varsA, varsU>>

resetOnClickDouble ==
  /\ mounted = "mounted"
  /\ filters' = DEFAULT_FILTERS
  /\ appliedFilters' = DEFAULT_FILTERS
  /\ limit' = DoubleOf(DEFAULT_LIMIT)
  /\ offset' = Zero
  /\ useEffectDouble(DEFAULT_FILTERS, DoubleOf(DEFAULT_LIMIT), Zero)
  /\ UNCHANGED <<mounted, baseUrl, storage, dropped, varsA, varsU>>

\* Math.floor(offset / limit) + 1
currentPageDouble ==
  Floor(Divide(offset, limit)) + 1

NextDouble ==
  \/ MountDouble
  \/ cur < MaxPagings /\ \E text \in LimitDecimals : limitOnChangeDouble(text)
  \/ cur < MaxPagings /\ \E text \in PageDecimals : pageOnChangeDouble(text)
  \/ cur < MaxPagings /\ handleSubmitDouble
  \/ cur < MaxPagings /\ resetOnClickDouble
  \/ \E e \in Endpoints, t \in PagingTotals : Respond(cur, e, "ok", 200, t)

SpecDouble == InitDouble /\ [][NextDouble]_vars

\* ================================================================ table rows
\* What JSON delivers for a numeric field of a record: null, nothing, or a
\* number.
FieldValues ==
  {NULL, UNDEFINED, Num(0), Num(7), Num(-1), [nan |-> FALSE, inf |-> FALSE, v2 |-> 3]}

Nullish(v) == v = NULL \/ v = UNDEFINED

\* The placeholder of PlanetsTable, an em dash.
T_dash == <<"&mdash;">>

\* Number.prototype.toFixed(2) of a finite number.
toFixed(n) ==
  (IF n.v2 < 0 THEN <<"-">> ELSE <<>>)
    \o NatToString((IF n.v2 < 0 THEN -n.v2 ELSE n.v2) \div 2)
    \o (IF n.v2 % 2 = 0 THEN <<".", "0", "0">> ELSE <<".", "5", "0">>)

\* {value ?? T_dash}: React renders a number as String(number).
yearCell(value) ==
  IF Nullish(value) THEN T_dash ELSE StringOfNumber(value)

numberCell_noPlaceholder(value) ==
  IF Nullish(value) THEN T_NaN ELSE toFixed(value)

\* {value?.toFixed(2) ?? T_dash}
numberCell(value) ==
  IF Nullish(value) THEN T_dash ELSE toFixed(value)

\* formatNumber(value) with the default fractionDigits: toLocaleString with at
\* most two fraction digits (for the numbers of the model, below 1000 and in a
\* locale with a decimal point, that is String(value)).
formatNumber(value) ==
  IF value = NULL \/ value = UNDEFINED THEN <<"-">>
  ELSE StringOfNumber(value)

\* A row of PlanetsTable, and a row of the dashboard's table, about to render.
InitRows ==
  /\ IdleB /\ IdleA
  /\ callPath = <<>> /\ callParams = <<>> /\ callNet = <<>> /\ callOut = <<>>
  /\ cells = <<>>
  /\ \/ planet \in [discovery_year : FieldValues, orbital_period : FieldValues,
                    radius : {NULL, Num(1)}, mass : {UNDEFINED, Num(2)}]
     \/ planet \in [orbperd : FieldValues, rade : FieldValues,
                    masse : {NULL, Num(1)}, st_teff : {UNDEFINED, Num(2)}]

\* PlanetsTable renders the row.
PlanetsTableRow ==
  /\ cells = <<>>
  /\ "discovery_year" \in DOMAIN planet
  /\ cells' = [discovery_year |-> yearCell(planet.discovery_year),
               orbital_period |-> numberCell(planet.orbital_period),
               radius |-> numberCell(planet.radius),
               mass |-> numberCell(planet.mass)]
  /\ UNCHANGED <<callPath, callParams, callNet, callOut, planet, varsA, varsB>>

\* The dashboard's table renders the row.
DashboardRow ==
  /\ cells = <<>>
  /\ "orbperd" \in DOMAIN planet
  /\ cells' = [f \in DOMAIN planet |-> formatNumber(planet[f])]
  /\ UNCHANGED <<callPath, callParams, callNet, callOut, planet, varsA, varsB>>

NextRows == PlanetsTableRow \/ DashboardRow

SpecRows == InitRows /\ [][NextRows]_vars

\* ======================================================= claims, dashboard
ErrorState(fs) ==
  /\ fs.error # NULL
  /\ ~fs.loading
  /\ fs.planets = NULL
  /\ fs.stats = NULL
  /\ fs.methodCounts = <<>>

\* The slots of the fetch state that hold a response of batch b.
Holds(fs, b) ==
  {e \in Endpoints :
     CASE e = "planets" -> fs.planets # NULL /\ fs.planets.req = b
       [] e = "stats" -> fs.stats # NULL /\ fs.stats.req = b
       [] e = "methodCounts" -> fs.methodCounts # <<>> /\ fs.methodCounts[1].req = b}

\* A step in which a response of a superseded batch arrives.
StaleArrival ==
  /\ cur' = cur
  /\ \E b \in 1..cur : b < cur /\ batches'[b] # batches[b]

\* C1: a response of a superseded batch, whenever it arrives and whatever it
\* is, changes nothing of the fetch state, and a step that puts a response
\* into the fetch state puts one of the latest batch there.
C1_StaleNeverCommits ==
  [][/\ StaleArrival => fetchState' = fetchState
     /\ \A b \in 1..cur' :
          Holds(fetchState', b) # {} /\ Holds(fetchState, b) = {} => b = cur']_vars

\* A superseded batch has had a response dropped while the latest batch has
\* committed its own three responses.
C1_Witness ==
  /\ cur >= 2
  /\ dropped
  /\ Holds(fetchState, cur) = Endpoints
  /\ \E b \in 1..(cur - 1) : \A e \in Endpoints : batches[b].req[e] = "done"

\* C2: once one of the three fetches of the latest batch has failed, the fetch
\* state is the error state, whatever the other two did and in whatever order.
C2_AnyFailureFailsBatch ==
  (cur >= 1 /\ \E e \in Endpoints : batches[cur].req[e] = "failed")
    => ErrorState(fetchState)

\* method-counts failed while listing and stats succeeded, after an earlier
\* batch had been loaded.
C2_Witness ==
  /\ cur >= 2
  /\ batches[cur].req = [e \in Endpoints |-> IF e = "methodCounts" THEN "failed" ELSE "ok"]
  /\ fetchState.error = [text |-> HttpErrorText("methodCounts"), status |-> 500]

\* A step in which a batch is aborted.
AbortStep ==
  \E b \in 1..cur : ~batches[b].aborted /\ batches'[b].aborted

\* C6: the abort of a batch never shows: an unmount leaves the fetch state as
\* it is, a key change leaves it as the start of the next fetchAll makes it
\* (loading, error cleared, data kept), and error is never an abort message.
C6_AbortIsSilent ==
  [][AbortStep =>
       /\ fetchState' = IF cur' = cur THEN fetchState
                        ELSE [fetchState EXCEPT !.loading = TRUE, !.error = NULL]
       /\ fetchState'.planets = fetchState.planets
       /\ fetchState'.stats = fetchState.stats
       /\ fetchState'.methodCounts = fetchState.methodCounts
       /\ fetchState'.error \in {NULL, fetchState.error}]_vars

\* Both aborts have happened with fetches pending: a key change aborted the
\* first batch, the unmount aborted the second after one of its fetches had
\* failed, and the error on display is still that failure.
C6_Witness ==
  /\ mounted = "unmounted"
  /\ cur = 2
  /\ \E e \in Endpoints : batches[1].req[e] = "abort"
  /\ \E e \in Endpoints : batches[2].req[e] = "abort"
  /\ fetchState.error # NULL

\* C7: when the latest batch is reported loaded, its three fetches have all
\* succeeded and the three slots hold its responses; and the fetch state never
\* holds the latest batch's response in some slots only.
C7_LoadedOnlyWhenAllThree ==
  cur >= 1 =>
    /\ (~fetchState.loading /\ fetchState.error = NULL) =>
          /\ \A e \in Endpoints : batches[cur].req[e] \in {"ok", "done"}
          /\ Holds(fetchState, cur) = Endpoints
    /\ Holds(fetchState, cur) \in {{}, Endpoints}

\* The second batch is reported loaded.
C7_Witness ==
  /\ cur >= 2
  /\ ~fetchState.loading
  /\ fetchState.error = NULL
  /\ Holds(fetchState, cur) = Endpoints


\* The query key: the base URL and the serialized query of the applied state.
QueryKey == <<baseUrl, queryParams>>

\* C8: while the dashboard is mounted, a step issues a new three-way fetch
\* exactly when it changes the query key, and the fetch it issues is for the
\* new key.
C8_FetchIffKeyChanges ==
  [][(mounted = "mounted" /\ mounted' = "mounted") =>
       /\ (cur' # cur) <=> (QueryKey' # QueryKey)
       /\ cur' # cur =>
            /\ cur' = cur + 1
            /\ batches'[cur'].baseUrl = baseUrl'
            /\ batches'[cur'].query = queryParams'
            /\ \A e \in Endpoints : batches'[cur'].req[e] = "pending"]_vars

\* Blank-equivalent filters have been submitted and no fetch but the first has
\* been issued.
C8_Witness ==
  /\ mounted = "mounted"
  /\ cur = 1
  /\ appliedFilters # DEFAULT_FILTERS
  /\ limit = DEFAULT_LIMIT
  /\ offset = 0

\* ================================================= claims, usePlanetList
\* C3: a step in which updateFilter changes a field of the filter state ends
\* with the page state at 1, whatever the page was.
C3_FilterChangeResetsPage ==
  [][ filtersA' # filtersA => page' = 1 ]_vars

\* The page was 2 under the default filters (request 2), the search field was
\* then changed, and the page is 1.
C3_Witness ==
  /\ Len(requests) >= 3
  /\ requests[2].key = queryKey(defaultState, 2)
  /\ requests[3].params.name = <<"a">>
  /\ filtersA.search = <<"a">>
  /\ page = 1

\* C4: a step that changes a filter field while the page is p > 1 issues no
\* GET /planets request with the new filter values and a page other than 1.
C4_NoRequestWithOldPage ==
  [][ (filtersA' # filtersA /\ page > 1)
        => \A i \in (Len(requests) + 1)..Len(requests') :
             requests'[i].params.name = filtersA'.search => requests'[i].params.page = 1 ]_vars

\* C5: a response for a key that is not the current one leaves what the hook
\* exposes as it was, and once the query of the current key holds a response,
\* the hook exposes that response: the latest one received for the parameters
\* of the current filters and page.
C5_CurrentKeyOwnsResult ==
  [][ LET k == queryKey(filtersA', page')
      IN  /\ (\E i \in 1..Len(requests) :
                /\ requests[i].state = "flying" /\ requests'[i].state # "flying"
                /\ requests[i].key # queryKey(filtersA, page))
               => query' = query
          /\ (k \in DOMAIN cache' /\ cache'[k].data # NULL)
               => /\ query'.data = cache'[k].data
                  /\ query'.data.params = mapFiltersToParams(filtersA', page')
                  /\ \A i \in 1..Len(requests') :
                       (requests'[i].key = k /\ requests'[i].state = "ok")
                         => i <= query'.data.results ]_vars

\* The response of the current key is on display, a response for another key
\* arrived while that key was not current, and the cache holds it.
C5_Witness ==
  LET k == queryKey(filtersA, page)
  IN  /\ late
      /\ k \in DOMAIN cache /\ cache[k].data # NULL
      /\ query.data = cache[k].data
      /\ \E j \in DOMAIN cache : j # k /\ cache[j].data # NULL

\* ========================================================= claims, buildUrl, get
\* The query string of a URL: what follows its "?".
QueryString(url) ==
  IF \E i \in 1..Len(url) : url[i] = "?"
  THEN SubSeq(url, 1 + (CHOOSE i \in 1..Len(url) : url[i] = "?"), Len(url))
  ELSE <<>>

\* The pieces of text t between the separators sep.
RECURSIVE Split(_, _)
Split(t, sep) ==
  IF \E i \in 1..Len(t) : t[i] = sep
  THEN LET i == CHOOSE i \in 1..Len(t) : t[i] = sep /\ \A j \in 1..(i - 1) : t[j] # sep
       IN  <<SubSeq(t, 1, i - 1)>> \o Split(SubSeq(t, i + 1, Len(t)), sep)
  ELSE <<t>>

RECURSIVE Decode(_)
Decode(t) ==
  IF t = <<>> THEN <<>>
  ELSE IF t[1] = "+" THEN <<" ">> \o Decode(Tail(t))
  ELSE IF t[1] = "%" /\ Len(t) >= 3
       THEN <<CASE SubSeq(t, 2, 3) = <<"2", "6">> -> "&"
                [] SubSeq(t, 2, 3) = <<"3", "D">> -> "="
                [] SubSeq(t, 2, 3) = <<"2", "B">> -> "+"
                [] SubSeq(t, 2, 3) = <<"2", "5">> -> "%"
                [] OTHER -> "?">> \o Decode(SubSeq(t, 4, Len(t)))
  ELSE <<t[1]>> \o Decode(Tail(t))

\* The name/value pairs a server reads from the query string.
ParseQuery(q) ==
  IF q = <<>> THEN <<>>
  ELSE LET parts == Split(q, "&")
       IN  [i \in 1..Len(parts) |->
              LET nv == Split(parts[i], "=")
              IN  <<Decode(nv[1]), IF Len(nv) >= 2 THEN Decode(nv[2]) ELSE <<>> >>]

EntriesOf(params) == IF params = <<>> THEN <<>> ELSE params[1]

\* C9: the query string of buildUrl(path, params) has a pair named after a
\* parameter iff the parameter's value is neither undefined nor ''; such a
\* parameter has exactly one pair, whose value is String(value); the query
\* string has no other pair, and it follows the base URL and the path.
C9_BuildUrlOmitsBlank ==
  callNet.state # "idle" =>
    LET q == ParseQuery(QueryString(callNet.url))
        entries == EntriesOf(callParams)
    IN  /\ \A i \in 1..Len(entries) :
             LET name == entries[i][1]
                 value == entries[i][2]
                 at == {j \in 1..Len(q) : q[j][1] = name}
             IN  /\ (at # {}) <=> (value # UNDEFINED /\ value # [string |-> <<>>])
                 /\ at # {} => /\ Cardinality(at) = 1
                               /\ \A j \in at : q[j][2] = String(value)
        /\ \A j \in 1..Len(q) : \E i \in 1..Len(entries) : entries[i][1] = q[j][1]
        /\ SubSeq(callNet.url, 1, Len(callPath) + 1) = API_BASE_URL \o callPath

\* buildUrl was given the number 0 for one parameter and a value with a space
\* and an ampersand for the other, and the URL carries both.
C9_Witness ==
  /\ callNet.state # "idle"
  /\ callParams = << << << <<"l">>, [number |-> 0] >>,
                        << <<"n">>, [string |-> <<" ", "&">>] >> >> >>
  /\ callNet.url = API_BASE_URL \o callPath
                     \o <<"?", "l", "=", "0", "&", "n", "=", "+", "%", "2", "6">>

Is2xx(status) == 200 <= status /\ status <= 299

StatusFailure(out, status) ==
  /\ out.kind = "error"
  /\ out.message = <<"Request failed with status ">> \o NumberToString(status)

IsStatusFailure(out) ==
  out.kind = "error" /\ out.message # <<>> /\ out.message[1] = "Request failed with status "

\* C10 as stated: get returns the parsed body iff the status is 2xx; a non-2xx
\* status fails with an error carrying the status; a network failure is a
\* failure that is not the status failure.
C10_ReturnsBodyIff2xx ==
  /\ callNet.state = "response" =>
       /\ (callOut.kind = "value" /\ callOut.value = "body") <=> Is2xx(callNet.status)
       /\ ~Is2xx(callNet.status) => StatusFailure(callOut, callNet.status)
  /\ callNet.state = "failed" => (callOut.kind = "error" /\ ~IsStatusFailure(callOut))

\* C10, amended: get returns the parsed body iff the status is 2xx and the body
\* parses as JSON; a non-2xx status fails with an error carrying the status; a
\* 2xx response whose body does not parse fails with the parse failure, which
\* is not the status failure; a network failure is a failure that is neither.
C10_ReturnsBodyIff2xxAndJson ==
  /\ callNet.state = "response" =>
       /\ (callOut.kind = "value" /\ callOut.value = "body")
            <=> (Is2xx(callNet.status) /\ callNet.json)
       /\ ~Is2xx(callNet.status) => StatusFailure(callOut, callNet.status)
       /\ (Is2xx(callNet.status) /\ ~callNet.json)
            => (callOut.kind = "error" /\ callOut.name = "SyntaxError"
                  /\ ~IsStatusFailure(callOut))
  /\ callNet.state = "failed" =>
       (callOut.kind = "error" /\ ~IsStatusFailure(callOut) /\ callOut.name # "SyntaxError")

\* A 204 came back without a body and get failed with the parse failure.
C10_Witness ==
  /\ callNet.state = "response"
  /\ callNet.status = 204
  /\ callOut.kind = "error"
  /\ callOut.name = "SyntaxError"

\* ============================================================ claims, builders
Blank(t) == Trim(t) = <<>>

\* The names of an ordered list of name/value pairs.
NamesOf(q) == [i \in 1..Len(q) |-> q[i][1]]

\* C11: with every filter field blank (empty or white space only, and
\* include_deleted false) the request of Builder A has exactly limit, page,
\* order_by and order_dir (limit=20&page=1&order_by=discovery_year&order_dir=desc
\* at the defaults), and the one of Builder B exactly limit, offset, sort_by and
\* sort_order.
C11_BlankFiltersSendNoFilter ==
  /\ (/\ callNet.state # "idle"
      /\ \A k \in {"search", "method", "minYear", "maxYear"} : Blank(filtersA[k]))
       => /\ NamesOf(ParseQuery(QueryString(callNet.url)))
               = << <<"limit">>, <<"page">>, <<"order_by">>, <<"order_dir">> >>
          /\ (filtersA = defaultState /\ page = 1)
               => QueryString(callNet.url)
                    = <<"limit", "=", "2", "0", "&", "page", "=", "1", "&", "order_by", "=">>
                        \o T_discovery_year \o <<"&", "order_dir", "=">> \o T_desc
  /\ (/\ mounted = "mounted"
      /\ \A k \in {"name", "disc_method", "min_year", "max_year"} : Blank(appliedFilters[k])
      /\ ~appliedFilters.include_deleted)
       => NamesOf(batches[1].query) = <<"limit", "offset", "sort_by", "sort_order">>

\* C12: in the parameters buildParams gives, a min_*/max_* parameter is present
\* iff the text of its field is not blank and parses to a finite number; it is
\* then there once, with that number as its value, and its value is never NaN,
\* undefined or an infinity.
C12_NumericFilterSentIffFinite ==
  mounted = "mounted" =>
    \A k \in {"min_year", "max_year"} :
      LET text == appliedFilters[k]
          q == batches[1].query
          at == {i \in 1..Len(q) : q[i][1] = k}
      IN  /\ (at # {}) <=> (~Blank(text) /\ isFinite(Number(text)))
          /\ at # {} =>
               /\ Cardinality(at) = 1
               /\ \A i \in at :
                    /\ q[i][2] = StringOfNumber(Number(text))
                    /\ q[i][2] \notin {T_NaN, T_Infinity, <<"-">> \o T_Infinity,
                                       <<"u", "n", "d", "e", "f", "i", "n", "e", "d">>}

\* The dashboard has fetched with a min_year that does not parse and a
\* max_year of " 7 ": min_year is not sent and max_year is sent as 7.
C12_Witness ==
  /\ mounted = "mounted"
  /\ appliedFilters.min_year = <<"x">>
  /\ appliedFilters.max_year = <<" ", "7", " ">>
  /\ \A i \in 1..Len(batches[1].query) : batches[1].query[i][1] # "min_year"
  /\ \E i \in 1..Len(batches[1].query) : batches[1].query[i] = <<"max_year", <<"7">> >>

\* C13: in the URL Builder A requests, min_year and max_year have no value that
\* does not parse as a number.
C13_YearValidatedAtBuild ==
  callNet.state # "idle" =>
    LET q == ParseQuery(QueryString(callNet.url))
    IN  \A i \in 1..Len(q) :
          q[i][1] \in { <<"min_year">>, <<"max_year">> } => ~Number(q[i][2]).nan

\* ============================================================== claims, paging
\* C14: on the dashboard currentPage is floor(offset / limit) + 1 in every
\* state, and totalPages is ceil(total / limit) once a listing is loaded and 0
\* when none is.
C14_PageArithmetic ==
  mounted # "" =>
    /\ (currentPage - 1) * limit <= offset
    /\ offset < currentPage * limit
    /\ fetchState.planets = NULL => totalPages = 0
    /\ fetchState.planets # NULL =>
         /\ totalPages * limit >= fetchState.planets.total
         /\ (totalPages - 1) * limit < fetchState.planets.total

\* offset = 40 with limit = 20 is page 3, and a listing of 95 has 5 pages.
C14_Witness ==
  /\ mounted = "mounted"
  /\ offset = 40 /\ limit = 20 /\ currentPage = 3
  /\ fetchState.planets # NULL
  /\ fetchState.planets.total = 95
  /\ totalPages = 5

\* C15: in PlanetsTable Previous is disabled iff the page of the response on
\* display is <= 1 and Next is disabled iff that page is >= its pages; with no
\* response page and pages are 1 and both are disabled.
C15_TableButtons ==
  filtersRef # "" =>
    /\ previousDisabled <=> (tablePage <= 1)
    /\ nextDisabled <=> (tablePage >= tablePages)
    /\ query.data = NULL => (tablePage = 1 /\ tablePages = 1 /\ previousDisabled /\ nextDisabled)

\* The response {page: 1, pages: 3, total: 47} is on display: 47 results, Next
\* enabled, Previous disabled.
C15_Witness ==
  /\ filtersRef # ""
  /\ query.data # NULL
  /\ tablePage = 1 /\ tablePages = 3 /\ tableTotal = 47
  /\ previousDisabled
  /\ ~nextDisabled

\* C16: on the dashboard Previous is disabled iff offset <= 0, which is iff
\* currentPage <= 1, and Next is disabled iff offset + limit >= total (or no
\* listing is loaded), which is iff currentPage >= totalPages.
C16_DashboardButtons ==
  mounted # "" =>
    /\ ~canGoPrev <=> (offset <= 0)
    /\ ~canGoPrev <=> (currentPage <= 1)
    /\ ~canGoNext <=> (fetchState.planets = NULL
                         \/ offset + limit >= fetchState.planets.total)
    /\ ~canGoNext <=> (currentPage >= totalPages)

\* C17: in both views the enabled Previous and Next controls depend on the
\* response on display alone: a step that leaves that response as it is leaves
\* the controls as they are, whatever it does to the page, offset or limit the
\* client keeps.
C17_ButtonsFollowResponse ==
  [][ /\ (mounted # "" /\ fetchState.planets # NULL /\ fetchState'.planets = fetchState.planets)
         => (canGoPrev' = canGoPrev /\ canGoNext' = canGoNext)
      /\ (filtersRef # "" /\ query.data # NULL /\ query'.data = query.data)
         => (previousDisabled' = previousDisabled /\ nextDisabled' = nextDisabled) ]_vars

\* C18: the page of usePlanetList is always >= 1, and on the dashboard limit is
\* always within 1..200 and offset always >= 0.
C18_PaginationState ==
  /\ filtersRef # "" => page >= 1
  /\ mounted # "" => (limit \in 1..200 /\ offset >= 0)

\* The texts 0, -5 or the empty text were put in the page-size input (limit is
\* 1) after a page had been asked for.
C18_Witness ==
  /\ mounted = "mounted"
  /\ limit = 1
  /\ offset = 0
  /\ cur >= 3
  /\ batches[2].offset > 0

\* C19: on DashboardPage the metric cards and the timeline chart fail apart: a
\* failed timeline query alone leaves the metric cards rendered, and a failed
\* stats query alone leaves the timeline chart rendered.
C19_SectionsFailIndependently ==
  location = "/" =>
    /\ (timeline.status = "error" /\ stats.status # "error") => DashboardPage.MetricCard
    /\ (stats.status = "error" /\ timeline.status # "error") => DashboardPage.TimelineChart

\* C20: a failed fetch is not tried again on its own: the step in which a fetch
\* fails issues no further request and leaves the failure in the view's error
\* flag, for fetchAll's batch and for the query of each hook.
C20_NoAutomaticRetry ==
  [][ /\ \A e \in Endpoints :
           (mounted = "mounted" /\ cur > 0 /\ batches[cur].req[e] = "pending"
              /\ batches'[cur].req[e] = "failed")
           => (cur' = cur /\ fetchState'.error # NULL /\ ~fetchState'.loading)
      /\ \A i \in 1..Len(requests) :
           (location # "" /\ requests[i].state = "flying" /\ requests'[i].state = "failed")
           => /\ Len(requests') = Len(requests)
              /\ cache'[requests[i].key].status = "error"
              /\ ~cache'[requests[i].key].fetching
              /\ cache'[requests[i].key].failureCount = 1
              /\ (location = "/planets" /\ requests[i].key = queryKey(filtersA, page))
                   => query'.status = "error"
              /\ (location = "/" /\ requests[i].key \in {useDiscoveryStats, useDiscoveryTimeline})
                   => DashboardPage'.className = "error"
              /\ (location = "/visualizations" /\ requests[i].key = useDiscoveryData)
                   => VisualizationPage'.className = "error" ]_vars

\* The stats query failed on its only request and the dashboard page shows the
\* error.
C20_Witness ==
  /\ location = "/"
  /\ stats.status = "error"
  /\ stats.failureCount = 1
  /\ Cardinality({i \in 1..Len(requests) : requests[i].key = useDiscoveryStats}) = 1
  /\ DashboardPage.className = "error"

\* C21: reset brings the filters and the pagination back to their defaults:
\* resetFilters, wherever the Reset button of PlanetFilters can be clicked,
\* leaves every filter at its default and the page at 1, and a step of the
\* dashboard that brings the draft filters back to DEFAULT_FILTERS (only its
\* Reset button does) leaves the applied filters at DEFAULT_FILTERS, limit at
\* 25 and offset at 0.
C21_ResetRestoresDefaults ==
  [][ /\ (location = "/planets" /\ requests # <<>> /\ ~isLoading)
           => afterResetFilters = [filters |-> defaultState, page |-> 1]
      /\ (mounted = "mounted" /\ filters # DEFAULT_FILTERS /\ filters' = DEFAULT_FILTERS)
           => (appliedFilters' = DEFAULT_FILTERS /\ limit' = 25 /\ offset' = 0) ]_vars

\* C22 as stated: update(v) stores v under the storage key, a later
\* initialization gives the value last written, and it gives DEFAULT_BASE_URL
\* when nothing or a blank value is stored.
C22_BaseUrlRoundTrip ==
  /\ [][storage' # storage => storage' = <<baseUrl'>>]_vars
  /\ [](mounted = "init" =>
          /\ baseUrl # <<>>
          /\ baseUrl = (IF storage = <<>> \/ Trim(storage[1]) = <<>> THEN DEFAULT_BASE_URL
                        ELSE storage[1]))

\* C22: update(v) stores v under the storage key; a later initialization gives
\* the value last written with the white space around it trimmed off, and
\* DEFAULT_BASE_URL when nothing or a blank value is stored, so the initial
\* base URL is never blank.
C22_BaseUrlRoundTripTrimmed ==
  /\ [][storage' # storage => storage' = <<baseUrl'>>]_vars
  /\ [](mounted = "init" =>
          /\ Trim(baseUrl) # <<>>
          /\ baseUrl = (IF storage = <<>> \/ Trim(storage[1]) = <<>> THEN DEFAULT_BASE_URL
                        ELSE Trim(storage[1])))

\* " x " was written and the page loaded again: the base URL is "x"; and after
\* a blank value was written it is DEFAULT_BASE_URL.
C22_Witness ==
  /\ mounted = "init"
  /\ storage = << <<" ", "x", " ">> >>
  /\ baseUrl = <<"x">>

C24_NetworkLeavesFilterState ==
  [][ /\ (mounted # "" /\ cur' = cur /\ batches' # batches)
           => UNCHANGED <<filters, appliedFilters, limit, offset>>
      /\ (location = "/planets" /\ Len(requests') = Len(requests) /\ requests' # requests)
           => UNCHANGED <<filtersA, filtersRef, page>> ]_vars

\* A batch of the dashboard has failed after the second page was asked for and
\* the offset is still that of the second page; or a request of PlanetsPage has
\* failed on page 2 with a filter set, and page and filter are still there.
C24_Witness ==
  \/ /\ mounted = "mounted"
     /\ offset = 25
     /\ fetchState.error # NULL
     /\ batches[cur].offset = 25
  \/ /\ location = "/planets"
     /\ page = 2
     /\ \E i \in 1..Len(requests) : requests[i].state = "failed" /\ requests[i].params.page = 2

\* C25: a step that edits the draft filters (one that changes them to anything
\* but DEFAULT_FILTERS: only handleFilterChange does) changes one field of the
\* draft, leaves the applied filters, limit, offset and the fetch state as they
\* are and sends nothing; the applied filters change only to a copy of the
\* draft (Submit) or to DEFAULT_FILTERS together with the draft (Reset); and
\* the latest listing request is always the one built from the applied filters.
C25_DraftEditsStayLocal ==
  /\ [][ /\ (mounted = "mounted" /\ filters' # filters /\ filters' # DEFAULT_FILTERS)
              => /\ Cardinality({k \in DOMAIN filters : filters'[k] # filters[k]}) = 1
                 /\ UNCHANGED <<appliedFilters, limit, offset, fetchState, cur, batches>>
         /\ (mounted = "mounted" /\ appliedFilters' # appliedFilters)
              => \/ appliedFilters' = filters /\ filters' = filters
                 \/ appliedFilters' = DEFAULT_FILTERS /\ filters' = DEFAULT_FILTERS ]_vars
  /\ []((mounted = "mounted" /\ cur > 0) => batches[cur].query = queryParams)

\* The name and the lowest year were typed into the draft after the first
\* listing had arrived: the applied filters are the defaults still, and the one
\* batch sent is the one of the mount.
C25_Witness ==
  /\ mounted = "mounted"
  /\ filters.name = <<"a">> /\ filters.min_year = <<"7">>
  /\ appliedFilters = DEFAULT_FILTERS
  /\ cur = 1
  /\ fetchState.planets # NULL

\* C26: a step of the dashboard that changes the applied filters or the limit
\* (Submit, the page-size input, Reset) leaves offset at 0 and the latest
\* listing request at offset 0, and a Submit leaves the applied filters equal
\* to the draft.
C26_SubmitAndLimitRewind ==
  [][ (mounted = "mounted" /\ (appliedFilters' # appliedFilters \/ limit' # limit))
        => /\ offset' = 0
           /\ batches'[cur'].offset = 0
           /\ (appliedFilters' # appliedFilters /\ filters' = filters)
                => appliedFilters' = filters ]_vars

\* The second page had been asked for, then a name was submitted: the third
\* batch asks for offset 0 with that name.
C26_Witness ==
  /\ mounted = "mounted"
  /\ cur = 3
  /\ batches[2].offset = 25
  /\ appliedFilters.name = <<"a">>
  /\ batches[2].query # batches[3].query
  /\ offset = 0
  /\ batches[3].offset = 0

\* C27: with whole page inputs the offset is a whole multiple of the current
\* limit in every reachable state, whatever goToPage, page-size changes, submit
\* and reset did before, and the page shown is the page asked for:
\* offset = k * limit for a whole k >= 0 and currentPage = k + 1 (k = 0 for a
\* page input below 1).
C27_OffsetIsPageMultiple ==
  mounted = "mounted" =>
    \E page1 \in {currentPageDouble} : page1 >= 1 /\ offset = Times(limit, page1 - 1)

\* C28: in every reachable fetch state of the dashboard, an error comes with
\* no data and no loading (planets and stats null, methodCounts empty, loading
\* false), and loading comes with no error.
C28_FetchStateShape ==
  mounted # "" =>
    /\ fetchState.error # NULL =>
         /\ fetchState.planets = NULL
         /\ fetchState.stats = NULL
         /\ fetchState.methodCounts = <<>>
         /\ ~fetchState.loading
    /\ fetchState.loading => fetchState.error = NULL

\* The second batch failed on one endpoint after another of its endpoints had
\* answered, and the error is shown.
C28_Witness ==
  /\ mounted = "mounted"
  /\ cur = 2
  /\ batches[2].req["planets"] = "ok"
  /\ batches[2].req["stats"] = "failed"
  /\ fetchState.error # NULL
  /\ fetchState.planets = NULL
  /\ ~fetchState.loading

\* C29: loading does not stay true forever: once the inputs stop and the
\* fetches of the latest batch settle, the mounted dashboard shows data or an
\* error with loading false, although the batches superseded before returned
\* on their abort without touching the fetch state; and while loading is false
\* no batch that was not aborted is in flight (none of its fetches is pending).
C29_LoadingEnds ==
  /\ (mounted = "mounted" /\ fetchState.loading)
       ~> (\/ mounted = "unmounted"
           \/ ~fetchState.loading /\ (fetchState.planets # NULL \/ fetchState.error # NULL))
  /\ [][(cur' = cur /\ \E b \in 1..(cur - 1) : batches'[b] # batches[b])
          => fetchState' = fetchState]_vars
  /\ [](mounted = "mounted" /\ ~fetchState.loading =>
          \A b \in 1..cur : ~batches[b].aborted =>
            \A e \in Endpoints : batches[b].req[e] # "pending")

\* C29 as the code has it: while loading is false, fetchAll awaits no batch
\* that was not aborted (the Promise.all of the latest batch has settled); the
\* fetches of a failed batch that had not answered yet stay on the wire.
C29_LoadingEndsAwaited ==
  /\ (mounted = "mounted" /\ fetchState.loading)
       ~> (\/ mounted = "unmounted"
           \/ ~fetchState.loading /\ (fetchState.planets # NULL \/ fetchState.error # NULL))
  /\ [][(cur' = cur /\ \E b \in 1..(cur - 1) : batches'[b] # batches[b])
          => fetchState' = fetchState]_vars
  /\ [](mounted = "mounted" /\ ~fetchState.loading =>
          \A b \in 1..cur : ~batches[b].aborted => PromiseAll(batches[b].req) # "pending")

\* The first batch was superseded with a response still on the wire, the
\* second failed on one endpoint while another had not answered, and loading
\* is over with the error shown.
C29_Witness ==
  /\ mounted = "mounted"
  /\ cur = 2
  /\ batches[1].aborted
  /\ batches[1].req["planets"] = "abort"
  /\ batches[2].req["planets"] = "failed"
  /\ batches[2].req["stats"] = "pending"
  /\ ~fetchState.loading
  /\ fetchState.error # NULL

====
